---- MODULE Spec2Model ----
(***************************************************************************)
(* The EngiVault Python SDK (src/python-sdk/engivault): the client and its *)
(* transport (_make_request), the pydantic input and result models, the    *)
(* module facades and the process-wide client of shortcuts.py.             *)
(*                                                                         *)
(* Conventions.  An Optional[T] value is a set with at most one element:   *)
(* {} is None and {v} is the value v.  Numbers are integers in the unit    *)
(* noted at each field (roughness in micrometres, so that the defaults     *)
(* 0.00015 m and 4.6e-5 m are 150 and 46).  A JSON object is a function    *)
(* from its keys to its values.                                            *)
(***************************************************************************)
EXTENDS Integers, Sequences, FiniteSets, TLC

VARIABLES
    clients,          \* id -> the EngiVaultClient object constructed as number id
    _global_client,   \* shortcuts._global_client: {} (None) or {id}
    lastInit,         \* history: what the latest init() returned, {} after a reset
    last              \* the call the caller has just made and what it got back

vars == <<clients, _global_client, lastInit, last>>

None == {}
Some(v) == {v}
Val(o) == CHOOSE v \in o : TRUE

\* Python truthiness of an Optional[str] credential.
TruthyStr(o) == o # None /\ o # Some("")

(***************************************************************************)
(* models.to_camel_case, on strings.                                       *)
(***************************************************************************)
LowerCase == "abcdefghijklmnopqrstuvwxyz"
UpperCase == "ABCDEFGHIJKLMNOPQRSTUVWXYZ"

CharAt(s, i) == SubSeq(s, i, i)

IndexIn(alphabet, ch) ==
    IF \E i \in 1..Len(alphabet) : CharAt(alphabet, i) = ch
    THEN CHOOSE i \in 1..Len(alphabet) : CharAt(alphabet, i) = ch
    ELSE 0

upper(ch) == IF IndexIn(LowerCase, ch) > 0 THEN CharAt(UpperCase, IndexIn(LowerCase, ch)) ELSE ch
lower(ch) == IF IndexIn(UpperCase, ch) > 0 THEN CharAt(LowerCase, IndexIn(UpperCase, ch)) ELSE ch

RECURSIVE MapLower(_)
MapLower(s) == IF s = "" THEN "" ELSE lower(CharAt(s, 1)) \o MapLower(SubSeq(s, 2, Len(s)))

\* str.capitalize(): first character upper-cased, the rest lower-cased.
capitalize(s) == IF s = "" THEN "" ELSE upper(CharAt(s, 1)) \o MapLower(SubSeq(s, 2, Len(s)))

\* str.split('_'): the components between underscores (always at least one).
RECURSIVE split(_)
split(s) ==
    IF \A i \in 1..Len(s) : CharAt(s, i) # "_"
    THEN <<s>>
    ELSE LET k == CHOOSE i \in 1..Len(s) :
                    /\ CharAt(s, i) = "_"
                    /\ \A j \in 1..(i - 1) : CharAt(s, j) # "_"
         IN  <<SubSeq(s, 1, k - 1)>> \o split(SubSeq(s, k + 1, Len(s)))

RECURSIVE JoinCapitalized(_)
JoinCapitalized(components) ==
    IF components = <<>> THEN ""
    ELSE capitalize(Head(components)) \o JoinCapitalized(Tail(components))

to_camel_case(snake_str) ==
    LET components == split(snake_str)
    IN  Head(components) \o JoinCapitalized(Tail(components))

(***************************************************************************)
(* client.EngiVaultClient: construction and authentication headers.        *)
(***************************************************************************)
DefaultBaseUrl == [origin |-> "https://engivault-api-production.up.railway.app", path |-> ""]
DefaultTimeout == 30

\* str.rstrip("/") on the path part of the base URL.
RECURSIVE rstrip_slash(_)
rstrip_slash(path) ==
    IF path # "" /\ CharAt(path, Len(path)) = "/"
    THEN rstrip_slash(SubSeq(path, 1, Len(path) - 1))
    ELSE path

\* Two variants of _setup_auth that the authentication claims must tell apart
\* from the code: one sets both headers when both credentials are given, the
\* other lets the key take precedence over the token.
SetupAuthBoth(api_key, jwt_token) ==
    (IF TruthyStr(jwt_token) THEN {<<"Authorization", "Bearer " \o Val(jwt_token)>>} ELSE {})
    \cup (IF TruthyStr(api_key) THEN {<<"X-API-Key", Val(api_key)>>} ELSE {})
    \cup {<<"Content-Type", "application/json">>,
          <<"User-Agent", "EngiVault-Python-SDK/1.0.0">>}
SetupAuthKeyFirst(api_key, jwt_token) ==
    (IF TruthyStr(api_key) THEN {<<"X-API-Key", Val(api_key)>>}
     ELSE IF TruthyStr(jwt_token) THEN {<<"Authorization", "Bearer " \o Val(jwt_token)>>}
     ELSE {})
    \cup {<<"Content-Type", "application/json">>,
          <<"User-Agent", "EngiVault-Python-SDK/1.0.0">>}

\* _setup_auth(): the headers of the session, `if self.jwt_token ... elif self.api_key`.
_setup_auth(api_key, jwt_token) ==
    (IF TruthyStr(jwt_token) THEN {<<"Authorization", "Bearer " \o Val(jwt_token)>>}
     ELSE IF TruthyStr(api_key) THEN {<<"X-API-Key", Val(api_key)>>}
     ELSE {})
    \cup {<<"Content-Type", "application/json">>,
          <<"User-Agent", "EngiVault-Python-SDK/1.0.0">>}

\* The guard of __init__: `if not api_key and not jwt_token: raise`.
HasCredential(api_key, jwt_token) == TruthyStr(api_key) \/ TruthyStr(jwt_token)

\* A client whose five modules are shared by all clients and hold the first client.
EngiVaultClientSharedFacades(id, api_key, jwt_token, base_url, timeout) ==
    [api_key   |-> api_key,
     jwt_token |-> jwt_token,
     base_url  |-> [origin |-> base_url.origin, path |-> rstrip_slash(base_url.path)],
     timeout   |-> timeout,
     headers   |-> _setup_auth(api_key, jwt_token),
     facades   |-> [m \in {"hydraulics", "pumps", "analytics", "heat_transfer",
                            "fluid_mechanics"} |-> 1]]

\* The object __init__ builds; `facades` are the clients its five modules hold.
EngiVaultClient(id, api_key, jwt_token, base_url, timeout) ==
    [api_key   |-> api_key,
     jwt_token |-> jwt_token,
     base_url  |-> [origin |-> base_url.origin, path |-> rstrip_slash(base_url.path)],
     timeout   |-> timeout,
     headers   |-> _setup_auth(api_key, jwt_token),
     facades   |-> [m \in {"hydraulics", "pumps", "analytics", "heat_transfer",
                            "fluid_mechanics"} |-> id]]

\* `client.<module>` and then its `self.client`: the client a facade of client c
\* sends its requests through.
Facade(c, module) == clients[c].facades[module]

AuthHeaderNames == {"Authorization", "X-API-Key"}
AuthHeaders(headers) == {h \in headers : h[1] \in AuthHeaderNames}

(***************************************************************************)
(* The inputs the caller draws from.                                       *)
(***************************************************************************)
MaxClients == 2

LocalBaseUrl == [origin |-> "http://localhost:3000", path |-> "/"]

\* Constructor arguments: no credential, an empty key, a key, a token (with a
\* base URL and timeout of its own), and both.
Args(api_key, jwt_token, base_url, timeout) ==
    [api_key |-> api_key, jwt_token |-> jwt_token, base_url |-> base_url,
     timeout |-> timeout]
ClientArgs ==
    {Args(None, None, DefaultBaseUrl, DefaultTimeout),
     Args(Some(""), None, DefaultBaseUrl, DefaultTimeout),
     Args(Some("k1"), None, DefaultBaseUrl, DefaultTimeout),
     Args(None, Some("t1"), LocalBaseUrl, 60),
     Args(Some("k1"), Some("t1"), DefaultBaseUrl, DefaultTimeout)}
DefaultArgs == {a \in ClientArgs : a.base_url = DefaultBaseUrl /\ a.timeout = DefaultTimeout}

ClientIds == 1..Len(clients)
Idle == last.op = "none"

\* What a call that never reached the network leaves in `last`; `before` is the
\* process-wide client at the time of the call.
Local(op, client, kind, message, value) ==
    [op |-> op, client |-> client, args |-> <<>>, kind |-> kind,
     message |-> message, status |-> None, value |-> value, requests |-> <<>>, resps |-> <<>>,
     before |-> _global_client]

(***************************************************************************)
(* EngiVaultClient(...), create_client, and the process-wide client of     *)
(* shortcuts.py.                                                           *)
(***************************************************************************)
ConfigurationErrorMessage == "Either api_key or jwt_token must be provided"

\* A direct construction by the caller: EngiVaultClient(api_key=, jwt_token=, ...).
Construct ==
    /\ Idle
    /\ Len(clients) < MaxClients
    /\ \E a \in ClientArgs :
        LET id == Len(clients) + 1 IN
        IF ~HasCredential(a.api_key, a.jwt_token)
        THEN /\ last' = [Local("EngiVaultClient", None, "ConfigurationError",
                               ConfigurationErrorMessage, None) EXCEPT !.args = a]
             /\ UNCHANGED clients
        ELSE /\ clients' = Append(clients,
                    EngiVaultClient(id, a.api_key, a.jwt_token, a.base_url, a.timeout))
             /\ last' = [Local("EngiVaultClient", Some(id), "ok", "", Some(id)) EXCEPT !.args = a]
    /\ UNCHANGED <<_global_client, lastInit>>

\* create_client(api_key, jwt_token): the defaults for base_url and timeout.
create_client ==
    /\ Idle
    /\ Len(clients) < MaxClients
    /\ \E a \in DefaultArgs :
        LET id == Len(clients) + 1 IN
        IF ~HasCredential(a.api_key, a.jwt_token)
        THEN /\ last' = [Local("create_client", None, "ConfigurationError",
                               ConfigurationErrorMessage, None) EXCEPT !.args = a]
             /\ UNCHANGED clients
        ELSE /\ clients' = Append(clients,
                    EngiVaultClient(id, a.api_key, a.jwt_token, DefaultBaseUrl, DefaultTimeout))
             /\ last' = [Local("create_client", Some(id), "ok", "", Some(id)) EXCEPT !.args = a]
    /\ UNCHANGED <<_global_client, lastInit>>

\* Two other singletons: one that keeps the first client it was given, and one
\* that keeps every client it was given.
InitStoreFirstWins(old, id) == IF old = None THEN Some(id) ELSE old
InitStoreAdditive(old, id) == old \cup {id}

\* The value init() assigns to _global_client, given what it held.
InitStore(old, id) == Some(id)

\* An init() that clears the process-wide client before it constructs the new one.
StoreClearedByFailedInit(old) == None

\* _global_client after an init() whose constructor raised: the assignment
\* `_global_client = EngiVaultClient(...)` did not happen.
StoreAfterFailedInit(old) == old

\* The value of ENGIVAULT_API_KEY in the environment of the process: unset or set.
Environs == {None, Some("env-api-key")}

\* The key init() passes to the constructor: `EngiVaultClient(api_key=api_key,
\* **config)`, the argument as given; the environment is not consulted.
InitApiKey(api_key, environ) == api_key

\* init(api_key=None, **config): config may carry jwt_token, base_url, timeout.
\* The assignment happens only when the constructor returns.
init ==
    /\ Idle
    /\ Len(clients) < MaxClients
    /\ \E a \in ClientArgs, environ \in Environs :
        LET id == Len(clients) + 1
            api_key == InitApiKey(a.api_key, environ)
        IN
        IF ~HasCredential(api_key, a.jwt_token)
        THEN /\ last' = [Local("init", None, "ConfigurationError",
                               ConfigurationErrorMessage, None) EXCEPT !.args = a]
                         @@ [environ |-> environ]
             /\ _global_client' = StoreAfterFailedInit(_global_client)
             /\ UNCHANGED <<clients, lastInit>>
        ELSE /\ clients' = Append(clients,
                    EngiVaultClient(id, api_key, a.jwt_token, a.base_url, a.timeout))
             /\ _global_client' = InitStore(_global_client, id)
             /\ lastInit' = Some(id)
             /\ last' = [Local("init", Some(id), "ok", "", Some(id)) EXCEPT !.args = a]
                         @@ [environ |-> environ]

NotInitializedMessage ==
    "EngiVault client not initialized. Call engivault.init('your-api-key') first."

\* get_client(): what it returns or raises, given the stored client.
GetClientOutcome(stored) ==
    IF stored = None
    THEN [kind |-> "RuntimeError", message |-> NotInitializedMessage, value |-> None]
    ELSE [kind |-> "ok", message |-> "", value |-> stored]

get_client ==
    /\ Idle
    /\ LET r == GetClientOutcome(_global_client)
       IN  last' = Local("get_client", r.value, r.kind, r.message, r.value)
    /\ UNCHANGED <<clients, _global_client, lastInit>>

\* tests/test_shortcuts.py resets the process-wide client between cases.
ResetGlobal ==
    /\ Idle
    /\ _global_client' = None
    /\ lastInit' = None
    /\ last' = Local("reset", None, "ok", "", None)
    /\ UNCHANGED clients

\* The caller takes the result (or the exception) and goes on.
Return ==
    /\ ~Idle
    /\ last' = [op |-> "none"]
    /\ UNCHANGED <<clients, _global_client, lastInit>>

(***************************************************************************)
(* JSON values and server responses.  A response is either a transport     *)
(* failure (requests raised a RequestException) or an HTTP response whose  *)
(* body response.json() either decodes or does not.                        *)
(***************************************************************************)
JNull == [t |-> "null"]
JArray == [t |-> "array"]
JBool(b) == [t |-> "bool", b |-> b]
JStr(str) == [t |-> "str", s |-> str]
JNum(n) == [t |-> "num", n |-> n]
JObj(f) == [t |-> "obj", o |-> f]

EmptyDict == <<>>
Has(dict, key) == key \in DOMAIN dict

\* An `or` that always yields its right operand.
OrSecond(a, b) == b

\* Python truthiness of a value, and `a or b`.
Truthy(j) ==
    CASE j.t = "null" -> FALSE
      [] j.t = "num" -> j.n # 0
      [] j.t = "str" -> j.s # ""
      [] j.t = "bool" -> j.b
      [] j.t = "obj" -> j.o # EmptyDict
      [] OTHER -> TRUE
Or(a, b) == IF Truthy(a) THEN a ELSE b

\* The JSON object holding the given optional members.
Envelope(success, data, error, timestamp) ==
    LET present == [k \in {"success", "data", "error", "timestamp"} |->
                        CASE k = "success" -> success
                          [] k = "data" -> data
                          [] k = "error" -> error
                          [] OTHER -> timestamp]
    IN  [k \in {x \in DOMAIN present : present[x] # None} |-> Val(present[k])]

TransportFailure(cause) == [received |-> FALSE, cause |-> cause]
HttpText(status, text) == [received |-> TRUE, status |-> status,
                           body |-> [json |-> FALSE, text |-> text]]
HttpJson(status, value) == [received |-> TRUE, status |-> status,
                            body |-> [json |-> TRUE, value |-> value]]

(***************************************************************************)
(* pydantic models (models.py).  A field is declared as in the source:     *)
(* F(name, type) is `name: type = Field(...)`, wrapped by Optional, Default,*)
(* Gt, Ge, Le and Alias for Optional[...], a default value, gt=, ge=, le=   *)
(* and alias=.  `wire` is the key the field has in serialized form.        *)
(***************************************************************************)
F(name, type) ==
    [name |-> name, type |-> type, optional |-> FALSE, required |-> TRUE,
     default |-> JNull, gt |-> None, ge |-> None, le |-> None, alias |-> None,
     wire |-> name]
Optional(f) == [f EXCEPT !.optional = TRUE]
Default(f, value) == [f EXCEPT !.required = FALSE, !.default = value]
Gt(f, n) == [f EXCEPT !.gt = Some(n)]
Ge(f, n) == [f EXCEPT !.ge = Some(n)]
Le(f, n) == [f EXCEPT !.le = Some(n)]
Alias(f, alias) == [f EXCEPT !.alias = Some(alias)]

\* pydantic.BaseModel: no alias generator, fields are populated by their own name.
BaseModel(name, fields) ==
    [name |-> name, populate_by_name |-> FALSE,
     fields |-> [i \in DOMAIN fields |->
        [fields[i] EXCEPT !.wire = IF fields[i].alias # None THEN Val(fields[i].alias)
                                   ELSE fields[i].name]]]

\* CamelCaseModel: alias_generator = to_camel_case (an explicit alias wins),
\* populate_by_name = True.
CamelCaseModel(name, fields) ==
    [name |-> name, populate_by_name |-> TRUE,
     fields |-> [i \in DOMAIN fields |->
        [fields[i] EXCEPT !.wire = IF fields[i].alias # None THEN Val(fields[i].alias)
                                   ELSE to_camel_case(fields[i].name)]]]

FieldsOf(model) == {model.fields[i] : i \in DOMAIN model.fields}
FieldNames(model) == {f.name : f \in FieldsOf(model)}
FieldNamed(model, name) == CHOOSE f \in FieldsOf(model) : f.name = name

\* The input a field is populated from: its alias, else (populate_by_name) its name.
Found(model, f, dict) ==
    IF Has(dict, f.wire) THEN Some(dict[f.wire])
    ELSE IF model.populate_by_name /\ Has(dict, f.name) THEN Some(dict[f.name])
    ELSE None

\* Lax-mode type check of the values drawn here (a bool also accepts 0 and 1).
TypeOk(type, j) ==
    CASE type \in {"float", "int"} -> j.t = "num"
      [] type = "str" -> j.t = "str"
      [] type = "bool" -> j.t = "bool" \/ (j.t = "num" /\ j.n \in {0, 1})
      [] type = "dict" -> j.t = "obj"
      [] type = "list" -> j.t = "array"
      [] OTHER -> FALSE

Coerce(type, j) == IF type = "bool" /\ j.t = "num" THEN JBool(j.n = 1) ELSE j

ConstraintsOk(f, j) ==
    j.t = "num" =>
        /\ f.gt # None => j.n > Val(f.gt)
        /\ f.ge # None => j.n >= Val(f.ge)
        /\ f.le # None => j.n <= Val(f.le)

FieldError(f, found) ==
    IF found = None THEN f.required
    ELSE IF Val(found).t = "null" THEN ~f.optional
    ELSE ~TypeOk(f.type, Val(found)) \/ ~ConstraintsOk(f, Val(found))

\* The fields whose validation fails when the model is built from dict.
ModelErrors(model, dict) ==
    {f.name : f \in {g \in FieldsOf(model) : FieldError(g, Found(model, g, dict))}}

\* The model instance: field name -> value (unknown keys of dict are ignored).
ModelValue(model, dict) ==
    [name \in FieldNames(model) |->
        LET f == FieldNamed(model, name)
            found == Found(model, f, dict)
        IN  IF found = None THEN f.default ELSE Coerce(f.type, Val(found))]

\* model_dump(by_alias=True, exclude_none=...) and the deprecated .dict(by_alias=True).
model_dump(model, value, exclude_none) ==
    LET kept == {f \in FieldsOf(model) : ~(exclude_none /\ value[f.name].t = "null")}
    IN  [w \in {f.wire : f \in kept} |->
            value[(CHOOSE f \in kept : f.wire = w).name]]

\* str() of the pydantic ValidationError, up to its first line.
ValidationText(model, errors) ==
    ToString(Cardinality(errors)) \o " validation error"
        \o (IF Cardinality(errors) > 1 THEN "s" ELSE "") \o " for " \o model.name

PressureDropInput ==
    CamelCaseModel("PressureDropInput", <<
       Gt(F("flow_rate", "float"), 0),
       Gt(F("pipe_diameter", "float"), 0),
       Gt(F("pipe_length", "float"), 0),
       Gt(F("fluid_density", "float"), 0),
       Gt(F("fluid_viscosity", "float"), 0),
       Gt(Default(Optional(F("pipe_roughness", "float")), JNum(150)), 0)>>)

PressureDropResult ==
    CamelCaseModel("PressureDropResult", <<
       F("pressure_drop", "float"),
       F("reynolds_number", "float"),
       F("friction_factor", "float"),
       F("velocity", "float")>>)

FlowRateInput ==
    CamelCaseModel("FlowRateInput", <<
       Gt(F("pressure_drop", "float"), 0),
       Gt(F("pipe_diameter", "float"), 0),
       Gt(F("pipe_length", "float"), 0),
       Gt(F("fluid_density", "float"), 0),
       Gt(F("fluid_viscosity", "float"), 0),
       Gt(Default(Optional(F("pipe_roughness", "float")), JNum(150)), 0)>>)

FlowRateResult ==
    CamelCaseModel("FlowRateResult", <<
       F("flow_rate", "float"),
       F("velocity", "float"),
       F("reynolds_number", "float")>>)

PumpPerformanceInput ==
    CamelCaseModel("PumpPerformanceInput", <<
       Gt(F("flow_rate", "float"), 0),
       Gt(F("head", "float"), 0),
       Le(Gt(F("efficiency", "float"), 0), 1),
       Gt(F("power", "float"), 0)>>)

PumpPerformanceResult ==
    CamelCaseModel("PumpPerformanceResult", <<
       F("hydraulic_power", "float"),
       F("brake_power", "float"),
       F("specific_speed", "float"),
       F("efficiency", "float")>>)

NPSHInput ==
    CamelCaseModel("NPSHInput", <<
       F("suction_pressure", "float"),
       F("vapor_pressure", "float"),
       Gt(F("fluid_density", "float"), 0),
       Gt(F("suction_velocity", "float"), 0),
       Gt(F("suction_losses", "float"), 0)>>)

NPSHResult ==
    CamelCaseModel("NPSHResult", <<
       F("npsh_available", "float"),
       F("npsh_required", "float"),
       F("margin", "float"),
       F("is_cavitation_risk", "bool")>>)

APIResponse ==
    BaseModel("APIResponse", <<
       F("success", "bool"),
       Default(Optional(F("data", "dict")), JNull),
       Default(Optional(F("error", "str")), JNull),
       F("timestamp", "str")>>)

UsageStats ==
    BaseModel("UsageStats", <<
       F("total_requests", "int"),
       F("requests_today", "int"),
       F("requests_this_month", "int"),
       F("average_response_time", "float"),
       F("top_endpoints", "list"),
       F("daily_usage", "list")>>)

HeatExchangerInput ==
    CamelCaseModel("HeatExchangerInput", <<
       Gt(F("heat_duty", "float"), 0),
       Gt(F("overall_u", "float"), 0),
       Gt(F("t_hot_in", "float"), 0),
       Gt(F("t_hot_out", "float"), 0),
       Gt(F("t_cold_in", "float"), 0),
       Gt(F("t_cold_out", "float"), 0),
       Default(Optional(F("flow_arrangement", "str")), JStr("counterflow"))>>)

HeatExchangerResult ==
    CamelCaseModel("HeatExchangerResult", <<
       F("area", "float"),
       F("lmtd", "float"),
       F("effectiveness", "float"),
       F("ntu", "float"),
       F("capacity_ratio", "float")>>)

LMTDInput ==
    CamelCaseModel("LMTDInput", <<
       F("t_hot_in", "float"),
       F("t_hot_out", "float"),
       F("t_cold_in", "float"),
       F("t_cold_out", "float"),
       Default(Optional(F("flow_arrangement", "str")), JStr("counterflow"))>>)

LMTDResult ==
    BaseModel("LMTDResult", <<
       F("lmtd", "float")>>)

EffectivenessNTUInput ==
    CamelCaseModel("EffectivenessNTUInput", <<
       Gt(F("ntu", "float"), 0),
       Le(Ge(F("capacity_ratio", "float"), 0), 1),
       F("flow_arrangement", "str")>>)

EffectivenessNTUResult ==
    CamelCaseModel("EffectivenessNTUResult", <<
       F("effectiveness", "float"),
       F("max_heat_transfer", "float")>>)

OpenChannelFlowInput ==
    CamelCaseModel("OpenChannelFlowInput", <<
       Gt(F("flow_rate", "float"), 0),
       Gt(F("channel_width", "float"), 0),
       Gt(F("channel_slope", "float"), 0),
       Alias(Gt(F("mannings_s_coeff", "float"), 0), "manningSCoeff"),
       Default(Optional(F("channel_shape", "str")), JStr("rectangular")),
       Default(Optional(F("side_slope", "float")), JNum(0))>>)

OpenChannelFlowResult ==
    CamelCaseModel("OpenChannelFlowResult", <<
       F("normal_depth", "float"),
       F("critical_depth", "float"),
       F("velocity", "float"),
       F("froude_number", "float"),
       F("flow_regime", "str"),
       F("hydraulic_radius", "float"),
       F("wetted_perimeter", "float"),
       F("top_width", "float")>>)

CompressibleFlowInput ==
    CamelCaseModel("CompressibleFlowInput", <<
       Default(Optional(F("mach_number", "float")), JNull),
       Default(Optional(F("velocity", "float")), JNull),
       Gt(F("temperature", "float"), 0),
       Gt(F("pressure", "float"), 0),
       F("gas_properties", "dict"),
       Default(Optional(F("flow_type", "str")), JStr("isentropic"))>>)

CompressibleFlowResult ==
    CamelCaseModel("CompressibleFlowResult", <<
       F("mach_number", "float"),
       F("velocity", "float"),
       F("speed_of_sound", "float"),
       F("stagnation_temperature", "float"),
       F("stagnation_pressure", "float"),
       F("density", "float"),
       F("flow_regime", "str"),
       F("pressure_ratio", "float"),
       F("temperature_ratio", "float"),
       F("density_ratio", "float")>>)

BoundaryLayerInput ==
    CamelCaseModel("BoundaryLayerInput", <<
       Gt(F("velocity", "float"), 0),
       Gt(F("distance", "float"), 0),
       F("fluid_properties", "dict"),
       Default(Optional(F("surface_roughness", "float")), JNull),
       Default(Optional(F("plate_length", "float")), JNull)>>)

BoundaryLayerResult ==
    CamelCaseModel("BoundaryLayerResult", <<
       F("reynolds_number", "float"),
       F("boundary_layer_thickness", "float"),
       F("displacement_thickness", "float"),
       F("momentum_thickness", "float"),
       F("skin_friction_coefficient", "float"),
       F("wall_shear_stress", "float"),
       F("flow_regime", "str")>>)

ExternalFlowInput ==
    CamelCaseModel("ExternalFlowInput", <<
       Gt(F("velocity", "float"), 0),
       Gt(F("characteristic_length", "float"), 0),
       F("fluid_properties", "dict"),
       F("geometry", "str"),
       Default(Optional(F("angle_of_attack", "float")), JNull)>>)

ExternalFlowResult ==
    CamelCaseModel("ExternalFlowResult", <<
       F("reynolds_number", "float"),
       F("drag_coefficient", "float"),
       Default(Optional(F("lift_coefficient", "float")), JNull),
       F("drag_force", "float"),
       Default(Optional(F("lift_force", "float")), JNull),
       F("pressure_coefficient", "float")>>)

(***************************************************************************)
(* client.EngiVaultClient._make_request                                    *)
(***************************************************************************)
\* urljoin(base_url, endpoint) for an endpoint that starts with "/".
urljoin(base_url, endpoint) == base_url.origin \o endpoint

\* The arguments of the one session.request(...) call.
SessionRequest(c, method, endpoint, data, params) ==
    [method  |-> method,
     url     |-> urljoin(clients[c].base_url, endpoint),
     headers |-> clients[c].headers,
     json    |-> data,
     params  |-> params,
     timeout |-> clients[c].timeout]

\* A transport that tries once more after a failure of the connection.
AttemptsWithRetry(resp) == IF resp.received THEN 1 ELSE 2

\* How many times _make_request calls session.request for one call.
Attempts(resp) == 1

Raised(kind, message, status) ==
    [kind |-> kind, message |-> message, status |-> status, value |-> EmptyDict]
Returned(value) ==
    [kind |-> "ok", message |-> "", status |-> None, value |-> value]

\* str() of what error_data.get("error", default) returned.
ErrorText(j) ==
    CASE j.t = "str" -> j.s
      [] j.t = "null" -> "None"
      [] j.t = "bool" -> IF j.b THEN "True" ELSE "False"
      [] j.t = "num" -> ToString(j.n)
      [] OTHER -> "<" \o j.t \o ">"

\* The branch `elif response.status_code >= 400`.
HttpErrorOutcome(resp) ==
    IF ~resp.body.json
    THEN Raised("APIError",
                "HTTP " \o ToString(resp.status) \o ": " \o resp.body.text,
                Some(resp.status))
    ELSE IF resp.body.value.t # "obj"
    THEN Raised("AttributeError", "object has no attribute 'get'", None)
    ELSE IF Has(resp.body.value.o, "error")
    THEN Raised("APIError", ErrorText(resp.body.value.o["error"]), Some(resp.status))
    ELSE Raised("APIError", "HTTP " \o ToString(resp.status), Some(resp.status))

\* The code after the status checks: parse, validate the envelope, unwrap.
ParseOutcome(resp) ==
    IF ~resp.body.json
    THEN Raised("APIError", "Invalid JSON response from API", None)
    ELSE IF resp.body.value.t # "obj"
    THEN Raised("TypeError", "argument after ** must be a mapping", None)
    ELSE LET dict == resp.body.value.o
             errors == ModelErrors(APIResponse, dict)
         IN  IF errors # {}
             THEN Raised("APIError",
                         "Invalid response format: " \o ValidationText(APIResponse, errors),
                         None)
             ELSE LET api_response == ModelValue(APIResponse, dict) IN
                  IF ~api_response["success"].b
                  THEN Raised("APIError",
                              Or(api_response["error"], JStr("Unknown API error")).s,
                              None)
                  ELSE Returned(Or(api_response["data"], JObj(EmptyDict)).o)

\* A status dispatch without the 401 branch: 401 is handled as any status >= 400.
ResponseOutcomeNo401(resp) ==
    IF ~resp.received
    THEN Raised("NetworkError", "Network request failed: " \o resp.cause, None)
    ELSE IF resp.status = 429
    THEN Raised("RateLimitError", "Rate limit exceeded", None)
    ELSE IF resp.status >= 400
    THEN HttpErrorOutcome(resp)
    ELSE ParseOutcome(resp)

\* What the call raises or returns once session.request has returned or raised.
ResponseOutcome(resp) ==
    IF ~resp.received
    THEN Raised("NetworkError", "Network request failed: " \o resp.cause, None)
    ELSE IF resp.status = 401
    THEN Raised("AuthenticationError", "Invalid API key or JWT token", None)
    ELSE IF resp.status = 429
    THEN Raised("RateLimitError", "Rate limit exceeded", None)
    ELSE IF resp.status >= 400
    THEN HttpErrorOutcome(resp)
    ELSE ParseOutcome(resp)

\* _make_request(method, endpoint, data, params) on client c, the server
\* answering resp: the outcome, with the requests sent and the answers used.
_make_request(c, method, endpoint, data, params, resp) ==
    LET outcome == ResponseOutcome(resp)
        request == SessionRequest(c, method, endpoint, data, params)
    IN  [kind     |-> outcome.kind,
         message  |-> outcome.message,
         status   |-> outcome.status,
         value    |-> outcome.value,
         requests |-> [i \in 1..Attempts(resp) |-> request],
         resps    |-> <<resp>>]

\* A transport that forgets its authentication headers once it has made a call.
SelfAfterCallForgetful(cs) ==
    [i \in DOMAIN cs |-> [cs[i] EXCEPT !.headers = @ \ AuthHeaders(@)]]

\* The clients after a call: _make_request, and the facades and shortcuts above it,
\* read self.base_url, self.timeout and self.session and assign to no attribute.
SelfAfterCall(cs) == cs

\* `last` after a call of operation op on client c that ended as result r.
Called(op, c, args, r) ==
    [op |-> op, client |-> Some(c), args |-> args, kind |-> r.kind, message |-> r.message,
     status |-> r.status, value |-> r.value, requests |-> r.requests,
     resps |-> r.resps, before |-> _global_client]

(***************************************************************************)
(* The answers the server is drawn from.                                   *)
(***************************************************************************)
Timestamp == Some(JStr("2025-09-16T17:19:34.027Z"))

\* Bodies of a 2xx answer, for the payloads `datas` of a successful one.
EnvelopeBodies(datas) ==
    {Envelope(Some(JBool(TRUE)), d, None, Timestamp) :
        d \in {None, Some(JNull)} \cup {Some(JObj(x)) : x \in datas}}
    \cup {Envelope(Some(JBool(FALSE)), None, e, Timestamp) :
        e \in {None, Some(JNull), Some(JStr("")), Some(JStr("X"))}}
    \cup {Envelope(Some(JBool(FALSE)), None, Some(JStr("X")), None),
          Envelope(Some(JBool(TRUE)), Some(JObj(EmptyDict)), None, None),
          Envelope(None, Some(JObj(EmptyDict)), None, Timestamp),
          Envelope(Some(JBool(TRUE)), Some(JObj(EmptyDict)), Some(JStr("X")), Timestamp),
          Envelope(Some(JBool(FALSE)), Some(JObj(EmptyDict)), Some(JStr("X")), Timestamp),
          Envelope(Some(JNull), None, None, Timestamp),
          Envelope(Some(JNum(1)), Some(JObj(EmptyDict)), None, Timestamp),
          Envelope(Some(JBool(TRUE)), Some(JArray), None, Timestamp),
          Envelope(Some(JBool(FALSE)), None, Some(JNum(7)), Timestamp),
          Envelope(Some(JBool(TRUE)), None, None, Some(JNum(7)))}

ErrorStatuses == {400, 401, 429, 500}

Responses(datas) ==
    {TransportFailure(cause) : cause \in {"timed out", "connection refused"}}
    \cup {HttpText(status, "Bad Gateway") : status \in ErrorStatuses \cup {200}}
    \cup {HttpJson(status, j) : status \in ErrorStatuses \cup {200}, j \in {JArray, JNull}}
    \cup {HttpJson(status, JObj(dict)) :
            status \in ErrorStatuses,
            dict \in {EmptyDict,
                     Envelope(None, None, Some(JStr("X")), None),
                     Envelope(None, None, Some(JNull), None),
                     Envelope(Some(JBool(TRUE)), Some(JObj(EmptyDict)), None, Timestamp)}}
    \cup {HttpJson(200, JObj(dict)) : dict \in EnvelopeBodies(datas)}

\* The answers a facade method is tried against: one of each kind above.
FacadeResponses(datas) ==
    {TransportFailure("timed out"), HttpText(500, "Bad Gateway"), HttpJson(500, JArray)}
    \cup {HttpJson(status, JObj(Envelope(None, None, Some(JStr("X")), None))) :
            status \in ErrorStatuses}
    \cup {HttpJson(200, JObj(dict)) :
            dict \in {Envelope(Some(JBool(TRUE)), Some(JObj(d)), None, Timestamp) : d \in datas}
                     \cup {Envelope(Some(JBool(TRUE)), Some(JNull), None, Timestamp),
                           Envelope(Some(JBool(FALSE)), None, Some(JStr("X")), Timestamp),
                           Envelope(Some(JBool(FALSE)), None, Some(JStr("X")), None)}}

RawData == [status |-> JStr("healthy")]
RawDatas == {RawData}

(***************************************************************************)
(* client.EngiVaultClient.health_check and get_info                        *)
(***************************************************************************)
health_check ==
    /\ Idle
    /\ \E c \in ClientIds, resp \in Responses(RawDatas) :
        last' = Called("health_check", c, EmptyDict,
                       _make_request(c, "GET", "/health", JNull, JNull, resp))
    /\ clients' = SelfAfterCall(clients)
    /\ UNCHANGED <<_global_client, lastInit>>

get_info ==
    /\ Idle
    /\ \E c \in ClientIds, resp \in FacadeResponses(RawDatas) :
        last' = Called("get_info", c, EmptyDict,
                       _make_request(c, "GET", "/", JNull, JNull, resp))
    /\ clients' = SelfAfterCall(clients)
    /\ UNCHANGED <<_global_client, lastInit>>

(***************************************************************************)
(* The steps every facade method is made of.                               *)
(***************************************************************************)
\* `raise SDKValidationError(...)` before any request.
NotSent(kind, message) ==
    [kind |-> kind, message |-> message, status |-> None, value |-> EmptyDict,
     requests |-> <<>>, resps |-> <<>>]

\* `except Exception as e: raise SDKValidationError(f"Invalid input parameters: {e}")`
InvalidInput(model, errors) ==
    NotSent("SDKValidationError",
            "Invalid input parameters: " \o ValidationText(model, errors))

\* `return ResultModel(**response_data)`: an error of _make_request propagates,
\* a payload the result model rejects raises pydantic's own ValidationError.
Parsed(model, sent) ==
    IF sent.kind # "ok" THEN sent
    ELSE IF ModelErrors(model, sent.value) # {}
    THEN [sent EXCEPT !.kind = "pydantic.ValidationError",
                      !.message = ValidationText(model, ModelErrors(model, sent.value)),
                      !.value = EmptyDict]
    ELSE [sent EXCEPT !.value = ModelValue(model, sent.value)]

\* Validate through the input model, POST its dump, parse into the result model.
Pipeline(c, inputModel, kwargs, exclude_none, endpoint, resultModel, resp) ==
    IF ModelErrors(inputModel, kwargs) # {}
    THEN InvalidInput(inputModel, ModelErrors(inputModel, kwargs))
    ELSE Parsed(resultModel,
                _make_request(c, "POST", endpoint,
                              JObj(model_dump(inputModel, ModelValue(inputModel, kwargs),
                                              exclude_none)),
                              JNull, resp))

(***************************************************************************)
(* hydraulics.HydraulicsModule                                             *)
(***************************************************************************)
hydraulics_pressure_drop(c, a, resp) ==
    Pipeline(c, PressureDropInput,
             [a EXCEPT !.pipe_roughness = Or(@, JNum(150))], FALSE,
             "/api/v1/hydraulics/pressure-drop", PressureDropResult, resp)

hydraulics_flow_rate(c, a, resp) ==
    Pipeline(c, FlowRateInput,
             [a EXCEPT !.pipe_roughness = Or(@, JNum(150))], FALSE,
             "/api/v1/hydraulics/flow-rate", FlowRateResult, resp)

(***************************************************************************)
(* pumps.PumpsModule                                                       *)
(***************************************************************************)
pumps_performance(c, a, resp) ==
    Pipeline(c, PumpPerformanceInput, a, FALSE,
             "/api/v1/pumps/performance", PumpPerformanceResult, resp)

pumps_npsh(c, a, resp) ==
    Pipeline(c, NPSHInput, a, FALSE, "/api/v1/pumps/npsh", NPSHResult, resp)

(***************************************************************************)
(* analytics.AnalyticsModule                                               *)
(***************************************************************************)
\* A usage_stats that checks the lower bound of days alone.
UsageStatsNoUpperBound(c, a, resp) ==
    IF a.days.t # "null" /\ a.days.n < 1
    THEN NotSent("SDKValidationError", "Days must be between 1 and 365")
    ELSE Parsed(UsageStats,
                _make_request(c, "GET", "/analytics/usage", JNull,
                              JObj(IF a.days.t # "null" THEN [days |-> a.days]
                                   ELSE EmptyDict),
                              resp))

\* A usage_stats that writes the days into the path of the request.
UsageStatsDaysInPath(c, a, resp) ==
    IF a.days.t # "null" /\ (a.days.n < 1 \/ a.days.n > 365)
    THEN NotSent("SDKValidationError", "Days must be between 1 and 365")
    ELSE Parsed(UsageStats,
                _make_request(c, "GET",
                              IF a.days.t # "null"
                              THEN "/analytics/usage?days=" \o ToString(a.days.n)
                              ELSE "/analytics/usage",
                              JNull, JNull, resp))

analytics_usage_stats(c, a, resp) ==
    IF a.days.t # "null" /\ (a.days.n < 1 \/ a.days.n > 365)
    THEN NotSent("SDKValidationError", "Days must be between 1 and 365")
    ELSE Parsed(UsageStats,
                _make_request(c, "GET", "/analytics/usage", JNull,
                              JObj(IF a.days.t # "null" THEN [days |-> a.days]
                                   ELSE EmptyDict),
                              resp))

analytics_api_key_performance(c, resp) ==
    _make_request(c, "GET", "/analytics/api-keys", JNull, JNull, resp)

analytics_subscription_limits(c, resp) ==
    _make_request(c, "GET", "/analytics/limits", JNull, JNull, resp)

(***************************************************************************)
(* heat_transfer.HeatTransferModule                                        *)
(***************************************************************************)
heat_transfer_heat_exchanger_area(c, a, resp) ==
    Pipeline(c, HeatExchangerInput,
             [a EXCEPT !.flow_arrangement = Or(@, JStr("counterflow"))], FALSE,
             "/api/v1/heat-transfer/heat-exchanger-area", HeatExchangerResult, resp)

\* Returns result.lmtd, the number, not the model.
heat_transfer_lmtd(c, a, resp) ==
    LET r == Pipeline(c, LMTDInput,
                      [a EXCEPT !.flow_arrangement = Or(@, JStr("counterflow"))], FALSE,
                      "/api/v1/heat-transfer/lmtd", LMTDResult, resp)
    IN  IF r.kind = "ok" THEN [r EXCEPT !.value = r.value["lmtd"]] ELSE r

heat_transfer_effectiveness_ntu(c, a, resp) ==
    Pipeline(c, EffectivenessNTUInput, a, FALSE,
             "/api/v1/heat-transfer/effectiveness-ntu", EffectivenessNTUResult, resp)

\* heat_duty / (difference), kept as the pair of its operands.
Quotient(p, q) == [t |-> "quotient", p |-> p, q |-> q]

\* heat_exchanger_sizing: heat_exchanger_area, then lmtd, then local arithmetic.
heat_transfer_heat_exchanger_sizing(c, a, resp1, resp2) ==
    LET temps == [t_hot_in |-> a.hot_fluid_inlet, t_hot_out |-> a.hot_fluid_outlet,
                  t_cold_in |-> a.cold_fluid_inlet, t_cold_out |-> a.cold_fluid_outlet,
                  flow_arrangement |-> a.flow_arrangement]
        hx == heat_transfer_heat_exchanger_area(c,
                  [k \in DOMAIN temps \cup {"heat_duty", "overall_u"} |->
                      IF k \in DOMAIN temps THEN temps[k] ELSE a[k]], resp1)
        lm == heat_transfer_lmtd(c, temps, resp2)
        after == [lm EXCEPT !.requests = hx.requests \o lm.requests,
                            !.resps = hx.resps \o lm.resps]
    IN  IF hx.kind # "ok" THEN hx
        ELSE IF lm.kind # "ok" THEN after
        ELSE IF a.hot_fluid_inlet.n = a.hot_fluid_outlet.n
                \/ a.cold_fluid_outlet.n = a.cold_fluid_inlet.n
        THEN [after EXCEPT !.kind = "ZeroDivisionError",
                           !.message = "division by zero", !.value = EmptyDict]
        ELSE [after EXCEPT !.value =
                [area |-> hx.value["area"],
                 lmtd |-> lm.value,
                 effectiveness |-> hx.value["effectiveness"],
                 ntu |-> hx.value["ntu"],
                 capacity_ratio |-> hx.value["capacity_ratio"],
                 hot_capacity_rate |->
                    Quotient(a.heat_duty.n, a.hot_fluid_inlet.n - a.hot_fluid_outlet.n),
                 cold_capacity_rate |->
                    Quotient(a.heat_duty.n, a.cold_fluid_outlet.n - a.cold_fluid_inlet.n),
                 heat_duty |-> a.heat_duty,
                 overall_u |-> a.overall_u,
                 flow_arrangement |-> a.flow_arrangement]]

(***************************************************************************)
(* fluid_mechanics.FluidMechanicsModule                                    *)
(***************************************************************************)
\* The parameter mannings_coeff is passed on as the field mannings_s_coeff.
fluid_mechanics_open_channel_flow(c, a, resp) ==
    Pipeline(c, OpenChannelFlowInput,
             [flow_rate |-> a.flow_rate,
              channel_width |-> a.channel_width,
              channel_slope |-> a.channel_slope,
              mannings_s_coeff |-> a.mannings_coeff,
              channel_shape |-> Or(a.channel_shape, JStr("rectangular")),
              side_slope |-> Or(a.side_slope, JNum(0))],
             FALSE, "/api/v1/fluid-mechanics/open-channel-flow",
             OpenChannelFlowResult, resp)

fluid_mechanics_compressible_flow(c, a, resp) ==
    IF a.mach_number.t = "null" /\ a.velocity.t = "null"
    THEN NotSent("SDKValidationError", "Either mach_number or velocity must be provided")
    ELSE Pipeline(c, CompressibleFlowInput,
                  [a EXCEPT !.flow_type = Or(@, JStr("isentropic"))], TRUE,
                  "/api/v1/fluid-mechanics/compressible-flow",
                  CompressibleFlowResult, resp)

fluid_mechanics_boundary_layer(c, a, resp) ==
    Pipeline(c, BoundaryLayerInput, a, TRUE,
             "/api/v1/fluid-mechanics/boundary-layer", BoundaryLayerResult, resp)

fluid_mechanics_external_flow(c, a, resp) ==
    Pipeline(c, ExternalFlowInput, a, TRUE,
             "/api/v1/fluid-mechanics/external-flow", ExternalFlowResult, resp)

\* mach_number_1 in tenths, so that the bound 1.0 is 10.
fluid_mechanics_normal_shock(c, a, resp) ==
    IF a.mach_number_1.t # "num"
    THEN NotSent("TypeError", "'<=' not supported between instances")
    ELSE IF a.mach_number_1.n <= 10
    THEN NotSent("SDKValidationError",
                 "Normal shock requires supersonic upstream flow (M1 > 1)")
    ELSE _make_request(c, "POST", "/api/v1/fluid-mechanics/normal-shock",
                       JObj([machNumber1 |-> a.mach_number_1, gamma |-> a.gamma]),
                       JNull, resp)

fluid_mechanics_choked_flow(c, a, resp) ==
    _make_request(c, "POST", "/api/v1/fluid-mechanics/choked-flow",
                  JObj([stagnationTemperature |-> a.stagnation_temperature,
                        stagnationPressure |-> a.stagnation_pressure,
                        gamma |-> a.gamma,
                        gasConstant |-> a.gas_constant]),
                  JNull, resp)

(***************************************************************************)
(* The arguments and answers the facade calls are drawn from: the valid    *)
(* arguments with at most one of them replaced, the server answering a     *)
(* well-formed success; and the valid arguments with every answer.         *)
(***************************************************************************)
\* The parameters some facade method declares with a default of None.
OptionalArgs ==
    {"pipe_roughness", "days", "flow_arrangement", "channel_shape", "side_slope",
     "mach_number", "velocity", "flow_type", "surface_roughness", "plate_length",
     "angle_of_attack"}

Alternatives(k, j) ==
    CASE j.t = "num" -> {JNum(-1), JNum(0)} \cup (IF k \in OptionalArgs THEN {JNull} ELSE {})
      [] j.t = "str" -> {JNull, JStr("diagonal")}
      [] j.t = "obj" -> {JNull, JObj(EmptyDict)}
      [] OTHER -> {}

Perturbed(base) ==
    {base} \cup UNION {{[base EXCEPT ![k] = v] : v \in Alternatives(k, base[k])} :
                          k \in DOMAIN base}

\* The key the API gives a field: camelCase (the explicit alias where there is one).
ApiKey(f) == IF f.alias # None THEN Val(f.alias) ELSE to_camel_case(f.name)

SampleValue(model, i) ==
    CASE model.fields[i].type \in {"float", "int"} -> JNum(10 + i)
      [] model.fields[i].type = "str" -> JStr("turbulent")
      [] model.fields[i].type = "bool" -> JBool(TRUE)
      [] model.fields[i].type = "list" -> JArray
      [] OTHER -> JObj(EmptyDict)

CamelData(model) ==
    [k \in {ApiKey(f) : f \in FieldsOf(model)} |->
        SampleValue(model, CHOOSE i \in DOMAIN model.fields : ApiKey(model.fields[i]) = k)]
SnakeData(model) ==
    [k \in FieldNames(model) |->
        SampleValue(model, CHOOSE i \in DOMAIN model.fields : model.fields[i].name = k)]
Without(dict, key) == [k \in DOMAIN dict \ {key} |-> dict[k]]

\* Payloads for a typed result: camelCase, snake_case, one field missing, one extra.
ResultDatas(model) ==
    {CamelData(model), SnakeData(model),
     Without(CamelData(model), ApiKey(model.fields[1])),
     CamelData(model) @@ ("requestId" :> JNum(99))}

Success(data) ==
    HttpJson(200, JObj(Envelope(Some(JBool(TRUE)), Some(JObj(data)), None, Timestamp)))

Cases(argSet, base, datas, canonical) ==
    {[args |-> a, resp |-> Success(canonical)] : a \in argSet}
    \cup {[args |-> base, resp |-> r] : r \in FacadeResponses(datas)}


HydraulicsPressureDropBase ==
    [flow_rate |-> JNum(1), pipe_diameter |-> JNum(1), pipe_length |-> JNum(1),
     fluid_density |-> JNum(1), fluid_viscosity |-> JNum(1), pipe_roughness |-> JNum(46)]

Call_hydraulics_pressure_drop ==
    /\ Idle
    /\ \E c \in ClientIds :
       \E x \in Cases(Perturbed(HydraulicsPressureDropBase),
                      HydraulicsPressureDropBase, ResultDatas(PressureDropResult), CamelData(PressureDropResult)) :
          last' = Called("hydraulics.pressure_drop", c, x.args, hydraulics_pressure_drop(Facade(c, "hydraulics"), x.args, x.resp))
    /\ clients' = SelfAfterCall(clients)
    /\ UNCHANGED <<_global_client, lastInit>>

HydraulicsFlowRateBase ==
    [pressure_drop |-> JNum(1), pipe_diameter |-> JNum(1), pipe_length |-> JNum(1),
     fluid_density |-> JNum(1), fluid_viscosity |-> JNum(1), pipe_roughness |-> JNum(46)]

Call_hydraulics_flow_rate ==
    /\ Idle
    /\ \E c \in ClientIds :
       \E x \in Cases(Perturbed(HydraulicsFlowRateBase),
                      HydraulicsFlowRateBase, ResultDatas(FlowRateResult), CamelData(FlowRateResult)) :
          last' = Called("hydraulics.flow_rate", c, x.args, hydraulics_flow_rate(Facade(c, "hydraulics"), x.args, x.resp))
    /\ clients' = SelfAfterCall(clients)
    /\ UNCHANGED <<_global_client, lastInit>>

PumpsPerformanceBase ==
    [flow_rate |-> JNum(1), head |-> JNum(1), efficiency |-> JNum(1), power |-> JNum(1)]

Call_pumps_performance ==
    /\ Idle
    /\ \E c \in ClientIds :
       \E x \in Cases(Perturbed(PumpsPerformanceBase),
                      PumpsPerformanceBase, ResultDatas(PumpPerformanceResult), CamelData(PumpPerformanceResult)) :
          last' = Called("pumps.performance", c, x.args, pumps_performance(Facade(c, "pumps"), x.args, x.resp))
    /\ clients' = SelfAfterCall(clients)
    /\ UNCHANGED <<_global_client, lastInit>>

PumpsNpshBase ==
    [suction_pressure |-> JNum(1), vapor_pressure |-> JNum(1), fluid_density |-> JNum(1),
     suction_velocity |-> JNum(1), suction_losses |-> JNum(1)]

Call_pumps_npsh ==
    /\ Idle
    /\ \E c \in ClientIds :
       \E x \in Cases(Perturbed(PumpsNpshBase),
                      PumpsNpshBase, ResultDatas(NPSHResult), CamelData(NPSHResult)) :
          last' = Called("pumps.npsh", c, x.args, pumps_npsh(Facade(c, "pumps"), x.args, x.resp))
    /\ clients' = SelfAfterCall(clients)
    /\ UNCHANGED <<_global_client, lastInit>>

AnalyticsUsageStatsBase ==
    [days |-> JNum(7)]

Call_analytics_usage_stats ==
    /\ Idle
    /\ \E c \in ClientIds :
       \E x \in Cases(Perturbed(AnalyticsUsageStatsBase)
              \cup {[days |-> JNum(n)] : n \in {1, 365, 366}},
                      AnalyticsUsageStatsBase, ResultDatas(UsageStats), CamelData(UsageStats)) :
          last' = Called("analytics.usage_stats", c, x.args, analytics_usage_stats(Facade(c, "analytics"), x.args, x.resp))
    /\ clients' = SelfAfterCall(clients)
    /\ UNCHANGED <<_global_client, lastInit>>

HeatTransferHeatExchangerAreaBase ==
    [heat_duty |-> JNum(1), overall_u |-> JNum(1), t_hot_in |-> JNum(4), t_hot_out |-> JNum(3),
     t_cold_in |-> JNum(1), t_cold_out |-> JNum(2), flow_arrangement |-> JStr("parallel")]

Call_heat_transfer_heat_exchanger_area ==
    /\ Idle
    /\ \E c \in ClientIds :
       \E x \in Cases(Perturbed(HeatTransferHeatExchangerAreaBase),
                      HeatTransferHeatExchangerAreaBase, ResultDatas(HeatExchangerResult), CamelData(HeatExchangerResult)) :
          last' = Called("heat_transfer.heat_exchanger_area", c, x.args, heat_transfer_heat_exchanger_area(Facade(c, "heat_transfer"), x.args, x.resp))
    /\ clients' = SelfAfterCall(clients)
    /\ UNCHANGED <<_global_client, lastInit>>

HeatTransferLmtdBase ==
    [t_hot_in |-> JNum(4), t_hot_out |-> JNum(3), t_cold_in |-> JNum(1), t_cold_out |-> JNum(2),
     flow_arrangement |-> JStr("parallel")]

Call_heat_transfer_lmtd ==
    /\ Idle
    /\ \E c \in ClientIds :
       \E x \in Cases(Perturbed(HeatTransferLmtdBase),
                      HeatTransferLmtdBase, ResultDatas(LMTDResult), CamelData(LMTDResult)) :
          last' = Called("heat_transfer.lmtd", c, x.args, heat_transfer_lmtd(Facade(c, "heat_transfer"), x.args, x.resp))
    /\ clients' = SelfAfterCall(clients)
    /\ UNCHANGED <<_global_client, lastInit>>

HeatTransferEffectivenessNtuBase ==
    [ntu |-> JNum(1), capacity_ratio |-> JNum(1), flow_arrangement |-> JStr("counterflow")]

Call_heat_transfer_effectiveness_ntu ==
    /\ Idle
    /\ \E c \in ClientIds :
       \E x \in Cases(Perturbed(HeatTransferEffectivenessNtuBase),
                      HeatTransferEffectivenessNtuBase, ResultDatas(EffectivenessNTUResult), CamelData(EffectivenessNTUResult)) :
          last' = Called("heat_transfer.effectiveness_ntu", c, x.args, heat_transfer_effectiveness_ntu(Facade(c, "heat_transfer"), x.args, x.resp))
    /\ clients' = SelfAfterCall(clients)
    /\ UNCHANGED <<_global_client, lastInit>>

FluidMechanicsOpenChannelFlowBase ==
    [flow_rate |-> JNum(1), channel_width |-> JNum(1), channel_slope |-> JNum(1),
     mannings_coeff |-> JNum(1), channel_shape |-> JStr("trapezoidal"), side_slope |-> JNum(1)]

Call_fluid_mechanics_open_channel_flow ==
    /\ Idle
    /\ \E c \in ClientIds :
       \E x \in Cases(Perturbed(FluidMechanicsOpenChannelFlowBase),
                      FluidMechanicsOpenChannelFlowBase, ResultDatas(OpenChannelFlowResult), CamelData(OpenChannelFlowResult)) :
          last' = Called("fluid_mechanics.open_channel_flow", c, x.args, fluid_mechanics_open_channel_flow(Facade(c, "fluid_mechanics"), x.args, x.resp))
    /\ clients' = SelfAfterCall(clients)
    /\ UNCHANGED <<_global_client, lastInit>>

FluidMechanicsCompressibleFlowBase ==
    [temperature |-> JNum(1), pressure |-> JNum(1), gas_properties |-> JObj([gamma |-> JNum(14)]),
     mach_number |-> JNum(1), velocity |-> JNum(1), flow_type |-> JStr("fanno")]

Call_fluid_mechanics_compressible_flow ==
    /\ Idle
    /\ \E c \in ClientIds :
       \E x \in Cases(Perturbed(FluidMechanicsCompressibleFlowBase)
              \cup {[FluidMechanicsCompressibleFlowBase EXCEPT !.mach_number = JNull, !.velocity = JNull]},
                      FluidMechanicsCompressibleFlowBase, ResultDatas(CompressibleFlowResult), CamelData(CompressibleFlowResult)) :
          last' = Called("fluid_mechanics.compressible_flow", c, x.args, fluid_mechanics_compressible_flow(Facade(c, "fluid_mechanics"), x.args, x.resp))
    /\ clients' = SelfAfterCall(clients)
    /\ UNCHANGED <<_global_client, lastInit>>

FluidMechanicsBoundaryLayerBase ==
    [velocity |-> JNum(1), distance |-> JNum(1), fluid_properties |-> JObj([density |-> JNum(1)]),
     surface_roughness |-> JNum(1), plate_length |-> JNum(1)]

Call_fluid_mechanics_boundary_layer ==
    /\ Idle
    /\ \E c \in ClientIds :
       \E x \in Cases(Perturbed(FluidMechanicsBoundaryLayerBase),
                      FluidMechanicsBoundaryLayerBase, ResultDatas(BoundaryLayerResult), CamelData(BoundaryLayerResult)) :
          last' = Called("fluid_mechanics.boundary_layer", c, x.args, fluid_mechanics_boundary_layer(Facade(c, "fluid_mechanics"), x.args, x.resp))
    /\ clients' = SelfAfterCall(clients)
    /\ UNCHANGED <<_global_client, lastInit>>

FluidMechanicsExternalFlowBase ==
    [velocity |-> JNum(1), characteristic_length |-> JNum(1),
     fluid_properties |-> JObj([density |-> JNum(1)]), geometry |-> JStr("sphere"),
     angle_of_attack |-> JNum(1)]

Call_fluid_mechanics_external_flow ==
    /\ Idle
    /\ \E c \in ClientIds :
       \E x \in Cases(Perturbed(FluidMechanicsExternalFlowBase),
                      FluidMechanicsExternalFlowBase, ResultDatas(ExternalFlowResult), CamelData(ExternalFlowResult)) :
          last' = Called("fluid_mechanics.external_flow", c, x.args, fluid_mechanics_external_flow(Facade(c, "fluid_mechanics"), x.args, x.resp))
    /\ clients' = SelfAfterCall(clients)
    /\ UNCHANGED <<_global_client, lastInit>>

FluidMechanicsNormalShockBase ==
    [mach_number_1 |-> JNum(20), gamma |-> JNum(14)]

Call_fluid_mechanics_normal_shock ==
    /\ Idle
    /\ \E c \in ClientIds :
       \E x \in Cases(Perturbed(FluidMechanicsNormalShockBase)
              \cup {[FluidMechanicsNormalShockBase EXCEPT !.mach_number_1 = JNum(n)] : n \in {10, 11}},
                      FluidMechanicsNormalShockBase, RawDatas, RawData) :
          last' = Called("fluid_mechanics.normal_shock", c, x.args, fluid_mechanics_normal_shock(Facade(c, "fluid_mechanics"), x.args, x.resp))
    /\ clients' = SelfAfterCall(clients)
    /\ UNCHANGED <<_global_client, lastInit>>

FluidMechanicsChokedFlowBase ==
    [stagnation_temperature |-> JNum(1), stagnation_pressure |-> JNum(1), gamma |-> JNum(14),
     gas_constant |-> JNum(287)]

Call_fluid_mechanics_choked_flow ==
    /\ Idle
    /\ \E c \in ClientIds :
       \E x \in Cases(Perturbed(FluidMechanicsChokedFlowBase),
                      FluidMechanicsChokedFlowBase, RawDatas, RawData) :
          last' = Called("fluid_mechanics.choked_flow", c, x.args, fluid_mechanics_choked_flow(Facade(c, "fluid_mechanics"), x.args, x.resp))
    /\ clients' = SelfAfterCall(clients)
    /\ UNCHANGED <<_global_client, lastInit>>

Call_analytics_api_key_performance ==
    /\ Idle
    /\ \E c \in ClientIds, resp \in FacadeResponses(RawDatas) :
        last' = Called("analytics.api_key_performance", c, EmptyDict,
                       analytics_api_key_performance(Facade(c, "analytics"), resp))
    /\ clients' = SelfAfterCall(clients)
    /\ UNCHANGED <<_global_client, lastInit>>

Call_analytics_subscription_limits ==
    /\ Idle
    /\ \E c \in ClientIds, resp \in FacadeResponses(RawDatas) :
        last' = Called("analytics.subscription_limits", c, EmptyDict,
                       analytics_subscription_limits(Facade(c, "analytics"), resp))
    /\ clients' = SelfAfterCall(clients)
    /\ UNCHANGED <<_global_client, lastInit>>

HeatTransferHeatExchangerSizingBase ==
    [heat_duty |-> JNum(1), hot_fluid_inlet |-> JNum(4), hot_fluid_outlet |-> JNum(3),
     cold_fluid_inlet |-> JNum(1), cold_fluid_outlet |-> JNum(2), overall_u |-> JNum(1),
     flow_arrangement |-> JStr("counterflow")]

\* Two answers: one for heat_exchanger_area's request, one for lmtd's.
Call_heat_transfer_heat_exchanger_sizing ==
    /\ Idle
    /\ \E c \in ClientIds :
       \E x \in {[args |-> a, resp1 |-> Success(CamelData(HeatExchangerResult)),
                  resp2 |-> Success(CamelData(LMTDResult))] :
                    a \in Perturbed(HeatTransferHeatExchangerSizingBase)
                          \cup {[HeatTransferHeatExchangerSizingBase
                                    EXCEPT !.hot_fluid_outlet = JNum(4)]}}
             \cup {[args |-> HeatTransferHeatExchangerSizingBase, resp1 |-> r,
                    resp2 |-> Success(CamelData(LMTDResult))] :
                    r \in FacadeResponses(ResultDatas(HeatExchangerResult))}
             \cup {[args |-> HeatTransferHeatExchangerSizingBase,
                    resp1 |-> Success(CamelData(HeatExchangerResult)), resp2 |-> r] :
                    r \in FacadeResponses(ResultDatas(LMTDResult))} :
          last' = Called("heat_transfer.heat_exchanger_sizing", c, x.args,
                         heat_transfer_heat_exchanger_sizing(Facade(c, "heat_transfer"), x.args, x.resp1, x.resp2))
    /\ clients' = SelfAfterCall(clients)
    /\ UNCHANGED <<_global_client, lastInit>>

(***************************************************************************)
(* shortcuts.py: each function takes the process-wide client from          *)
(* get_client() and returns what one facade method returns.  An argument   *)
(* the caller leaves out is absent from the record of arguments and takes  *)
(* the default of the function's signature.                                *)
(***************************************************************************)
WithDefault(a, key, v) == IF Has(a, key) THEN a ELSE a @@ (key :> v)

\* A shortcut that hands the facade's error on under another kind.
ViaWrapped(stored, r) ==
    IF GetClientOutcome(stored).kind # "ok"
    THEN NotSent(GetClientOutcome(stored).kind, GetClientOutcome(stored).message)
    ELSE IF r.kind = "ok" THEN r
         ELSE [r EXCEPT !.kind = "EngiVaultError", !.status = None]

\* A shortcut that reports an unset process-wide client as a ConfigurationError.
ViaConfigurationError(stored, r) ==
    IF GetClientOutcome(stored).kind # "ok"
    THEN NotSent("ConfigurationError", GetClientOutcome(stored).message)
    ELSE r

\* `client = get_client()` followed by `return client.<facade>.<method>(...)`.
Via(stored, r) ==
    IF GetClientOutcome(stored).kind # "ok"
    THEN NotSent(GetClientOutcome(stored).kind, GetClientOutcome(stored).message)
    ELSE r

shortcuts_pressure_drop(stored, a, resp) ==
    Via(stored, hydraulics_pressure_drop(Facade(Val(stored), "hydraulics"),
                    WithDefault(a, "pipe_roughness", JNum(46)), resp))

shortcuts_flow_rate(stored, a, resp) ==
    Via(stored, hydraulics_flow_rate(Facade(Val(stored), "hydraulics"),
                    WithDefault(a, "pipe_roughness", JNum(46)), resp))

\* PumpsModule has no method pump_performance.
shortcuts_pump_power(stored, a, resp) ==
    Via(stored, NotSent("AttributeError",
                        "'PumpsModule' object has no attribute 'pump_performance'"))

\* PumpsModule.npsh takes neither elevation_head nor velocity_head.
shortcuts_npsh(stored, a, resp) ==
    Via(stored, NotSent("TypeError",
                        "npsh() got an unexpected keyword argument 'elevation_head'"))

shortcuts_lmtd(stored, a, resp) ==
    Via(stored, heat_transfer_lmtd(Facade(Val(stored), "heat_transfer"),
                    WithDefault(a, "flow_arrangement", JStr("counterflow")), resp))

shortcuts_heat_exchanger(stored, a, resp) ==
    Via(stored, heat_transfer_heat_exchanger_area(Facade(Val(stored), "heat_transfer"),
                    WithDefault(a, "flow_arrangement", JStr("counterflow")), resp))

\* The shortcut has no side_slope parameter: the facade takes its default, None.
shortcuts_open_channel_flow(stored, a, resp) ==
    Via(stored, fluid_mechanics_open_channel_flow(Facade(Val(stored), "fluid_mechanics"),
                    WithDefault(a, "channel_shape", JStr("rectangular"))
                        @@ ("side_slope" :> JNull), resp))

\* The outcome of a shortcut, called on the process-wide client.
CalledShortcut(op, args, r) ==
    [Called(op, 0, args, r) EXCEPT !.client = _global_client]

\* The arguments as given, with the defaulted one left out, and with one at zero;
\* and every answer of the server to the arguments as given.
ShortcutCases(base, defaulted, positive, datas, canonical) ==
    {[args |-> a, resp |-> Success(canonical)] :
        a \in {base, Without(base, defaulted), [base EXCEPT ![positive] = JNum(0)]}}
    \cup {[args |-> base, resp |-> r] : r \in FacadeResponses(datas)}

Call_shortcuts_pressure_drop ==
    /\ Idle
    /\ \E x \in ShortcutCases(HydraulicsPressureDropBase, "pipe_roughness", "flow_rate",
                              ResultDatas(PressureDropResult), CamelData(PressureDropResult)) :
          last' = CalledShortcut("shortcuts.pressure_drop", x.args,
                                 shortcuts_pressure_drop(_global_client, x.args, x.resp))
    /\ clients' = SelfAfterCall(clients)
    /\ UNCHANGED <<_global_client, lastInit>>

Call_shortcuts_flow_rate ==
    /\ Idle
    /\ \E x \in ShortcutCases(HydraulicsFlowRateBase, "pipe_roughness", "pressure_drop",
                              ResultDatas(FlowRateResult), CamelData(FlowRateResult)) :
          last' = CalledShortcut("shortcuts.flow_rate", x.args,
                                 shortcuts_flow_rate(_global_client, x.args, x.resp))
    /\ clients' = SelfAfterCall(clients)
    /\ UNCHANGED <<_global_client, lastInit>>

ShortcutsPumpPowerBase ==
    [flow_rate |-> JNum(1), head |-> JNum(1), efficiency |-> JNum(1), fluid_density |-> JNum(1000)]

Call_shortcuts_pump_power ==
    /\ Idle
    /\ \E x \in ShortcutCases(ShortcutsPumpPowerBase, "fluid_density", "flow_rate",
                              {}, CamelData(PumpPerformanceResult)) :
          last' = CalledShortcut("shortcuts.pump_power", x.args,
                                 shortcuts_pump_power(_global_client, x.args, x.resp))
    /\ clients' = SelfAfterCall(clients)
    /\ UNCHANGED <<_global_client, lastInit>>

ShortcutsNpshBase ==
    [suction_pressure |-> JNum(1), vapor_pressure |-> JNum(1), fluid_density |-> JNum(1),
     elevation_head |-> JNum(1), velocity_head |-> JNum(0)]

Call_shortcuts_npsh ==
    /\ Idle
    /\ \E x \in ShortcutCases(ShortcutsNpshBase, "velocity_head", "suction_pressure",
                              {}, CamelData(NPSHResult)) :
          last' = CalledShortcut("shortcuts.npsh", x.args,
                                 shortcuts_npsh(_global_client, x.args, x.resp))
    /\ clients' = SelfAfterCall(clients)
    /\ UNCHANGED <<_global_client, lastInit>>

Call_shortcuts_lmtd ==
    /\ Idle
    /\ \E x \in ShortcutCases(HeatTransferLmtdBase, "flow_arrangement", "t_hot_in",
                              ResultDatas(LMTDResult), CamelData(LMTDResult)) :
          last' = CalledShortcut("shortcuts.lmtd", x.args,
                                 shortcuts_lmtd(_global_client, x.args, x.resp))
    /\ clients' = SelfAfterCall(clients)
    /\ UNCHANGED <<_global_client, lastInit>>

Call_shortcuts_heat_exchanger ==
    /\ Idle
    /\ \E x \in ShortcutCases(HeatTransferHeatExchangerAreaBase, "flow_arrangement", "heat_duty",
                              ResultDatas(HeatExchangerResult), CamelData(HeatExchangerResult)) :
          last' = CalledShortcut("shortcuts.heat_exchanger", x.args,
                                 shortcuts_heat_exchanger(_global_client, x.args, x.resp))
    /\ clients' = SelfAfterCall(clients)
    /\ UNCHANGED <<_global_client, lastInit>>

ShortcutsOpenChannelFlowBase ==
    [flow_rate |-> JNum(1), channel_width |-> JNum(1), channel_slope |-> JNum(1),
     mannings_coeff |-> JNum(1), channel_shape |-> JStr("trapezoidal")]

Call_shortcuts_open_channel_flow ==
    /\ Idle
    /\ \E x \in ShortcutCases(ShortcutsOpenChannelFlowBase, "channel_shape", "flow_rate",
                              ResultDatas(OpenChannelFlowResult), CamelData(OpenChannelFlowResult)) :
          last' = CalledShortcut("shortcuts.open_channel_flow", x.args,
                                 shortcuts_open_channel_flow(_global_client, x.args, x.resp))
    /\ clients' = SelfAfterCall(clients)
    /\ UNCHANGED <<_global_client, lastInit>>

Init ==
    /\ clients = <<>>
    /\ _global_client = None
    /\ lastInit = None
    /\ last = [op |-> "none"]

Next ==
    \/ Construct
    \/ create_client
    \/ init
    \/ get_client
    \/ ResetGlobal
    \/ health_check
    \/ get_info
    \/ Call_hydraulics_pressure_drop
    \/ Call_hydraulics_flow_rate
    \/ Call_pumps_performance
    \/ Call_pumps_npsh
    \/ Call_analytics_usage_stats
    \/ Call_heat_transfer_heat_exchanger_area
    \/ Call_heat_transfer_lmtd
    \/ Call_heat_transfer_effectiveness_ntu
    \/ Call_fluid_mechanics_open_channel_flow
    \/ Call_fluid_mechanics_compressible_flow
    \/ Call_fluid_mechanics_boundary_layer
    \/ Call_fluid_mechanics_external_flow
    \/ Call_fluid_mechanics_normal_shock
    \/ Call_fluid_mechanics_choked_flow
    \/ Call_analytics_api_key_performance
    \/ Call_analytics_subscription_limits
    \/ Call_heat_transfer_heat_exchanger_sizing
    \/ Call_shortcuts_pressure_drop
    \/ Call_shortcuts_flow_rate
    \/ Call_shortcuts_pump_power
    \/ Call_shortcuts_npsh
    \/ Call_shortcuts_lmtd
    \/ Call_shortcuts_heat_exchanger
    \/ Call_shortcuts_open_channel_flow
    \/ Return

Spec == Init /\ [][Next]_vars

(***************************************************************************)
(* The operations by kind, and the models each facade method validates     *)
(* its arguments with and parses its result into.                          *)
(***************************************************************************)
TransportOps ==
    {"health_check", "get_info", "analytics.api_key_performance",
     "analytics.subscription_limits"}

FacadeOps ==
    {"hydraulics.pressure_drop", "hydraulics.flow_rate", "pumps.performance", "pumps.npsh",
     "analytics.usage_stats", "analytics.api_key_performance",
     "analytics.subscription_limits", "heat_transfer.heat_exchanger_area",
     "heat_transfer.lmtd", "heat_transfer.effectiveness_ntu",
     "heat_transfer.heat_exchanger_sizing", "fluid_mechanics.open_channel_flow",
     "fluid_mechanics.compressible_flow", "fluid_mechanics.boundary_layer",
     "fluid_mechanics.external_flow", "fluid_mechanics.normal_shock",
     "fluid_mechanics.choked_flow"}

ConstructorOps == {"EngiVaultClient", "create_client", "init"}

ValidatedOps ==
    {"hydraulics.pressure_drop", "hydraulics.flow_rate", "pumps.performance",
             "pumps.npsh", "heat_transfer.heat_exchanger_area", "heat_transfer.lmtd",
             "heat_transfer.effectiveness_ntu", "heat_transfer.heat_exchanger_sizing",
             "fluid_mechanics.open_channel_flow", "fluid_mechanics.compressible_flow",
             "fluid_mechanics.boundary_layer", "fluid_mechanics.external_flow"}

InputModelOf(op) ==
    CASE op = "hydraulics.pressure_drop" -> PressureDropInput
      [] op = "hydraulics.flow_rate" -> FlowRateInput
      [] op = "pumps.performance" -> PumpPerformanceInput
      [] op = "pumps.npsh" -> NPSHInput
      [] op = "heat_transfer.heat_exchanger_area" -> HeatExchangerInput
      [] op = "heat_transfer.lmtd" -> LMTDInput
      [] op = "heat_transfer.effectiveness_ntu" -> EffectivenessNTUInput
      [] op = "heat_transfer.heat_exchanger_sizing" -> HeatExchangerInput
      [] op = "fluid_mechanics.open_channel_flow" -> OpenChannelFlowInput
      [] op = "fluid_mechanics.compressible_flow" -> CompressibleFlowInput
      [] op = "fluid_mechanics.boundary_layer" -> BoundaryLayerInput
      [] OTHER -> ExternalFlowInput

TypedOps ==
    {"hydraulics.pressure_drop", "hydraulics.flow_rate", "pumps.performance",
             "pumps.npsh", "analytics.usage_stats", "heat_transfer.heat_exchanger_area",
             "heat_transfer.effectiveness_ntu", "fluid_mechanics.open_channel_flow",
             "fluid_mechanics.compressible_flow", "fluid_mechanics.boundary_layer",
             "fluid_mechanics.external_flow"}

ResultModelOf(op) ==
    CASE op = "hydraulics.pressure_drop" -> PressureDropResult
      [] op = "hydraulics.flow_rate" -> FlowRateResult
      [] op = "pumps.performance" -> PumpPerformanceResult
      [] op = "pumps.npsh" -> NPSHResult
      [] op = "analytics.usage_stats" -> UsageStats
      [] op = "heat_transfer.heat_exchanger_area" -> HeatExchangerResult
      [] op = "heat_transfer.effectiveness_ntu" -> EffectivenessNTUResult
      [] op = "fluid_mechanics.open_channel_flow" -> OpenChannelFlowResult
      [] op = "fluid_mechanics.compressible_flow" -> CompressibleFlowResult
      [] op = "fluid_mechanics.boundary_layer" -> BoundaryLayerResult
      [] OTHER -> ExternalFlowResult

\* The model field a keyword argument of the facade method is passed on as.
FieldOfArg(op, k) ==
    IF op = "fluid_mechanics.open_channel_flow" /\ k = "mannings_coeff"
    THEN "mannings_s_coeff" ELSE k

\* The answer the call in `last` ended on, when it sent a request.
Sent == ~Idle /\ last.resps # <<>>
Answer == last.resps[Len(last.resps)]
AnsweredJson == Sent /\ Answer.received /\ Answer.body.json
AnsweredObject == AnsweredJson /\ Answer.body.value.t = "obj"

(***************************************************************************)
(* Properties of the transport.                                            *)
(***************************************************************************)
\* The text `error or fallback` of an envelope whose success is false.
EnvelopeErrorText(env) ==
    IF Has(env, "error") /\ env["error"].t = "str" /\ env["error"].s # ""
    THEN env["error"].s ELSE "Unknown API error"

\* The data of a success envelope, an empty mapping when it is null or absent.
EnvelopeData(env) ==
    IF Has(env, "data") /\ env["data"].t = "obj" THEN env["data"].o ELSE EmptyDict

\* C1: _make_request maps every call to its outcome by priority, first match
\* wins: a transport failure raises NetworkError; else HTTP 401 raises
\* AuthenticationError; else HTTP 429 raises RateLimitError; else any other
\* status >= 400 raises APIError; else a body that is not JSON raises APIError;
\* else a body without the required envelope fields raises APIError; else
\* success == false raises APIError with the envelope's error text or the
\* generic fallback; else the envelope's data is returned (an empty mapping
\* when it is null).
C1_PriorityMapping ==
    (~Idle /\ last.op \in TransportOps) =>
        IF ~Answer.received THEN last.kind = "NetworkError"
        ELSE IF Answer.status = 401 THEN last.kind = "AuthenticationError"
        ELSE IF Answer.status = 429 THEN last.kind = "RateLimitError"
        ELSE IF Answer.status >= 400 THEN last.kind = "APIError"
        ELSE IF ~Answer.body.json
        THEN last.kind = "APIError" /\ last.message = "Invalid JSON response from API"
        ELSE IF Answer.body.value.t # "obj"
        THEN last.kind = "APIError"
        ELSE IF ModelErrors(APIResponse, Answer.body.value.o) # {}
        THEN last.kind = "APIError"
        ELSE IF ~ModelValue(APIResponse, Answer.body.value.o)["success"].b
        THEN /\ last.kind = "APIError"
             /\ last.message = EnvelopeErrorText(Answer.body.value.o)
        ELSE /\ last.kind = "ok"
             /\ last.value = EnvelopeData(Answer.body.value.o)

\* The same mapping, for the answers whose body is not JSON or is a JSON object.
C1_PriorityMappingOfObjects ==
    (Sent /\ Answer.received /\ Answer.body.json /\ Answer.body.value.t # "obj")
    \/ C1_PriorityMapping

(***************************************************************************)
(* Properties of input validation.                                         *)
(***************************************************************************)
ValidationErrorKinds == {"ValidationError", "SDKValidationError"}

\* The arguments of the call in `last` that go to a field declared gt=0 and are <= 0.
NonPositiveArgs ==
    IF Idle \/ last.op \notin ValidatedOps THEN {}
    ELSE {k \in DOMAIN last.args :
            /\ last.args[k].t = "num"
            /\ last.args[k].n <= 0
            /\ \E f \in FieldsOf(InputModelOf(last.op)) :
                  f.name = FieldOfArg(last.op, k) /\ f.gt = Some(0)}

\* C2: for every facade method and every input field declared strictly
\* positive, a value <= 0 for that field raises ValidationError and no request
\* is sent.
C2_NonPositiveRejected ==
    NonPositiveArgs # {} =>
        last.kind \in ValidationErrorKinds /\ last.requests = <<>>

\* The same, leaving out the fields the facade method replaces by `value or default`.
C2_NonPositiveRejectedButRoughness ==
    (NonPositiveArgs \ {"pipe_roughness"}) # {} =>
        last.kind \in ValidationErrorKinds /\ last.requests = <<>>

\* C3: each call of _make_request issues exactly one network request, whether
\* it succeeds or fails; a failed request is not retried.  (`resps` holds one
\* answer per call of _make_request.)
C3_OneRequestPerCall ==
    ~Idle =>
        /\ Len(last.requests) = Len(last.resps)
        /\ last.op \in TransportOps => Len(last.requests) = 1

C3_Witness ==
    /\ last.op = "health_check"
    /\ last.kind = "NetworkError"
    /\ Len(last.requests) = 1

(***************************************************************************)
(* Properties of authentication and construction.                          *)
(***************************************************************************)
AuthOf(c) == AuthHeaders(clients[c].headers)

\* The one header a client's credentials allow: the bearer token's or the key's.
SchemesOf(c) ==
    (IF clients[c].jwt_token # None
     THEN {<<"Authorization", "Bearer " \o Val(clients[c].jwt_token)>>} ELSE {})
    \cup (IF clients[c].api_key # None
          THEN {<<"X-API-Key", Val(clients[c].api_key)>>} ELSE {})

AuthFixedAtConstruction ==
    /\ \A c \in ClientIds : Cardinality(AuthOf(c)) = 1 /\ AuthOf(c) \subseteq SchemesOf(c)
    /\ (~Idle /\ last.requests # <<>>) =>
          \A i \in DOMAIN last.requests :
              AuthHeaders(last.requests[i].headers) = AuthOf(Val(last.client))

AuthNeverChanges ==
    \A c \in ClientIds : c \in DOMAIN clients' /\ clients'[c].headers = clients[c].headers

\* C4: exactly one of the two authentication headers (Authorization: Bearer
\* <token> or X-API-Key: <key>) is set when a client is constructed, every
\* request the client sends carries that header and never both, and the header
\* does not change after construction.
C4_OneAuthScheme == []AuthFixedAtConstruction /\ [][AuthNeverChanges]_vars

C4_Witness ==
    /\ ~Idle
    /\ last.requests # <<>>
    /\ clients[Val(last.client)].api_key = Some("k1")
    /\ clients[Val(last.client)].jwt_token = Some("t1")
    /\ AuthHeaders(last.requests[1].headers) = {<<"Authorization", "Bearer t1">>}

ConstructorOutcome ==
    (~Idle /\ last.op \in ConstructorOps) =>
        /\ (last.args.api_key = None /\ last.args.jwt_token = None) =>
              last.kind = "ConfigurationError" /\ last.value = None
        /\ (TruthyStr(last.args.api_key) /\ TruthyStr(last.args.jwt_token)) =>
              /\ last.kind = "ok"
              /\ last.value # None
              /\ AuthOf(Val(last.value)) =
                    {<<"Authorization", "Bearer " \o Val(last.args.jwt_token)>>}

FailedConstructionLeavesNothing ==
    (last'.op \in ConstructorOps /\ last'.kind = "ConfigurationError") =>
        clients' = clients /\ _global_client' = _global_client

\* C5: constructing a client with neither an API key nor a token raises
\* ConfigurationError and produces no client; constructing with both is
\* accepted and uses the bearer-token scheme (the token takes precedence).
C5_Construction == []ConstructorOutcome /\ [][FailedConstructionLeavesNothing]_vars

C5_Witness ==
    /\ last.op = "EngiVaultClient"
    /\ last.args.api_key = Some("k1")
    /\ last.args.jwt_token = Some("t1")
    /\ last.kind = "ok"
    /\ AuthOf(Val(last.value)) = {<<"Authorization", "Bearer t1">>}

(***************************************************************************)
(* Properties of the process-wide client.  lastInit is the client the most *)
(* recent successful init() returned (None before any, and after a reset). *)
(***************************************************************************)
\* C6: get_client() before any init() raises the "not initialized" error;
\* after init(), every get_client() returns the very instance that init
\* returned, until the next init().
C6_GetClient ==
    /\ (~Idle /\ last.op = "init" /\ last.kind = "ok") => lastInit = last.value
    /\ (~Idle /\ last.op = "get_client") =>
          IF lastInit = None
          THEN last.kind # "ok" /\ last.message = NotInitializedMessage /\ last.value = None
          ELSE last.kind = "ok" /\ last.value = lastInit

C6_Witness ==
    /\ last.op = "get_client"
    /\ last.kind = "ok"
    /\ lastInit # None
    /\ last.value = lastInit

\* C7: init overwrites the stored client (last init wins, not additive):
\* after successful init calls get_client() returns the client the most
\* recent one constructed, and at most one client is stored at any time.
C7_LastInitWins ==
    /\ Cardinality(_global_client) <= 1
    /\ (~Idle /\ last.op = "init" /\ last.kind = "ok") =>
          _global_client = last.value /\ last.value = Some(Len(clients))
    /\ (~Idle /\ last.op = "get_client" /\ last.kind = "ok") =>
          Cardinality(last.value) = 1 /\ last.value = lastInit

C7_Witness ==
    /\ last.op = "init"
    /\ last.kind = "ok"
    /\ last.before # None
    /\ last.before # last.value
    /\ _global_client = last.value

(***************************************************************************)
(* Properties of the facade methods' outcomes.                             *)
(***************************************************************************)
\* C8: when the server answers HTTP 401, every facade method (called with
\* valid inputs, so that a request is sent) raises AuthenticationError.
C8_Unauthorized ==
    (Sent /\ last.op \in FacadeOps /\ Answer.received /\ Answer.status = 401) =>
        last.kind = "AuthenticationError"

C8_Witness ==
    /\ last.op = "heat_transfer.heat_exchanger_sizing"
    /\ Len(last.resps) = 2
    /\ Answer.received
    /\ Answer.status = 401
    /\ last.kind = "AuthenticationError"

BareErrorEnvelope == Envelope(Some(JBool(FALSE)), None, Some(JStr("X")), None)
InvalidFormatPrefix == "Invalid response format: "

\* C9: when the server answers HTTP 200 with the body {"success": false,
\* "error": "X"} and no other field, the facade raises APIError whose message
\* is exactly "X".
C9_BareErrorEnvelope ==
    (Sent /\ last.op \in FacadeOps /\ Answer = HttpJson(200, JObj(BareErrorEnvelope))) =>
        last.kind = "APIError" /\ last.message = "X"

\* C9 as the code has it: the message is the envelope's error text when the
\* body also carries the required timestamp (and the text is not empty);
\* without the timestamp the APIError reports an invalid response format.
C9_ErrorEnvelope ==
    (AnsweredObject /\ Answer.status = 200) =>
        LET env == Answer.body.value.o IN
        /\ (/\ DOMAIN env = {"success", "error", "timestamp"}
            /\ env["success"] = JBool(FALSE)
            /\ env["error"].t = "str" /\ env["error"].s # ""
            /\ env["timestamp"].t = "str") =>
                last.kind = "APIError" /\ last.message = env["error"].s
        /\ env = BareErrorEnvelope =>
                /\ last.kind = "APIError"
                /\ Len(last.message) > Len(InvalidFormatPrefix)
                /\ SubSeq(last.message, 1, Len(InvalidFormatPrefix)) = InvalidFormatPrefix

C9_Witness ==
    /\ last.op = "pumps.npsh"
    /\ Sent
    /\ Answer = HttpJson(200, JObj(Envelope(Some(JBool(FALSE)), None, Some(JStr("X")),
                                            Timestamp)))
    /\ last.kind = "APIError"
    /\ last.message = "X"

\* The camelCase key of each field of a typed result.
CamelCaseOf ==
    [n \in UNION {FieldNames(ResultModelOf(op)) : op \in TypedOps} |-> to_camel_case(n)]

\* The call in `last` was answered by a success envelope whose data holds
\* every field of the model under its camelCase key.
CamelAnswer(model) ==
    /\ AnsweredObject
    /\ Answer.status = 200
    /\ ModelErrors(APIResponse, Answer.body.value.o) = {}
    /\ Answer.body.value.o["success"] = JBool(TRUE)
    /\ Has(Answer.body.value.o, "data")
    /\ Answer.body.value.o["data"].t = "obj"
    /\ DOMAIN Answer.body.value.o["data"].o = {CamelCaseOf[f.name] : f \in FieldsOf(model)}

FieldsEqualData(model) ==
    /\ last.kind = "ok"
    /\ \A f \in FieldsOf(model) :
          last.value[f.name] = Answer.body.value.o["data"].o[CamelCaseOf[f.name]]

\* C10: for every facade method that returns a typed result (analytics
\* usage_stats included), when the server answers with a success envelope
\* whose data uses camelCase keys, each snake_case field of the result equals
\* the value of the corresponding camelCase key of data.
C10_TypedResult ==
    (~Idle /\ last.op \in TypedOps /\ CamelAnswer(ResultModelOf(last.op))) =>
        FieldsEqualData(ResultModelOf(last.op))

\* The same, for the result models that derive from CamelCaseModel.
C10_TypedResultOfCamelCaseModels ==
    (~Idle /\ last.op \in TypedOps /\ CamelAnswer(ResultModelOf(last.op))
        /\ ResultModelOf(last.op).populate_by_name) =>
        FieldsEqualData(ResultModelOf(last.op))

(***************************************************************************)
(* Properties of the typed results.                                        *)
(***************************************************************************)
\* The result model of every facade method that builds one (lmtd returns the
\* one field of its model).
ParsedOps == TypedOps \cup {"heat_transfer.lmtd"}
ParsedModelOf(op) == IF op = "heat_transfer.lmtd" THEN LMTDResult ELSE ResultModelOf(op)

\* The call in `last` was answered by a well-formed success envelope.
SuccessAnswer ==
    /\ AnsweredObject
    /\ Answer.status = 200
    /\ ModelErrors(APIResponse, Answer.body.value.o) = {}
    /\ ModelValue(APIResponse, Answer.body.value.o)["success"].b

\* The required fields of the model that the data of the answer does not hold.
MissingFields(model) ==
    {f.name : f \in {g \in FieldsOf(model) :
        g.required /\ Found(model, g, EnvelopeData(Answer.body.value.o)) = None}}

\* C11: when the data of a success envelope lacks a field the operation's
\* typed result requires (data null counting as an empty mapping), the facade
\* method raises APIError.
C11_MissingFieldIsAPIError ==
    (~Idle /\ last.op \in ParsedOps /\ SuccessAnswer
        /\ MissingFields(ParsedModelOf(last.op)) # {}) =>
        last.kind = "APIError"

(***************************************************************************)
(* Properties of the request body.                                         *)
(***************************************************************************)
\* The facade methods that pass their keyword arguments on to one input model.
SerializedOps == ValidatedOps \ {"heat_transfer.heat_exchanger_sizing"}

\* The keyword argument of the facade method a model field is filled from.
ArgOfField(op, name) ==
    IF op = "fluid_mechanics.open_channel_flow" /\ name = "mannings_s_coeff"
    THEN "mannings_coeff" ELSE name

\* The camelCase translation of each input field name.
CamelCaseOfInput ==
    [n \in UNION {FieldNames(InputModelOf(op)) : op \in ValidatedOps} |-> to_camel_case(n)]

\* The arguments in `last` are valid for the input model: every value is of
\* the field's type and within its bounds, only optional fields are omitted,
\* and compressible_flow is given a Mach number or a velocity.
ValidArgs ==
    /\ \A f \in FieldsOf(InputModelOf(last.op)) :
          LET k == ArgOfField(last.op, f.name) IN
          IF Has(last.args, k) /\ last.args[k].t # "null"
          THEN TypeOk(f.type, last.args[k]) /\ ConstraintsOk(f, last.args[k])
          ELSE f.optional
    /\ last.op = "fluid_mechanics.compressible_flow" =>
          last.args["mach_number"].t # "null" \/ last.args["velocity"].t # "null"

\* The value the body must carry for a field: the argument, or the default
\* of the field when the argument is omitted.
ExpectedValue(f) ==
    LET k == ArgOfField(last.op, f.name) IN
    IF Has(last.args, k) /\ last.args[k].t # "null" THEN last.args[k] ELSE f.default

BodyIsCamelCase(model) ==
    /\ last.kind \notin ValidationErrorKinds
    /\ Len(last.requests) = 1
    /\ last.requests[1].json.t = "obj"
    /\ DOMAIN last.requests[1].json.o \subseteq {CamelCaseOfInput[f.name] : f \in FieldsOf(model)}
    /\ \A f \in FieldsOf(model) :
          ExpectedValue(f).t # "null" =>
              /\ Has(last.requests[1].json.o, CamelCaseOfInput[f.name])
              /\ last.requests[1].json.o[CamelCaseOfInput[f.name]] = ExpectedValue(f)

\* C12: for all valid inputs of every calculation kind the validator does not
\* raise, and the serialized request body holds exactly the camelCase
\* translation of the input model's field names, with the defaults filled in
\* for the optional fields that were omitted.
C12_BodyIsCamelCase ==
    (~Idle /\ last.op \in SerializedOps /\ ValidArgs) => BodyIsCamelCase(InputModelOf(last.op))

\* The same, for the models whose fields all take their key from to_camel_case.
C12_BodyIsCamelCaseWithoutAlias ==
    (~Idle /\ last.op \in SerializedOps /\ ValidArgs
        /\ \A f \in FieldsOf(InputModelOf(last.op)) : f.alias = None) =>
        BodyIsCamelCase(InputModelOf(last.op))

(***************************************************************************)
(* Field-name translation, applied to every field of every model.          *)
(***************************************************************************)
Models ==
    {PressureDropInput, PressureDropResult, FlowRateInput, FlowRateResult,
     PumpPerformanceInput, PumpPerformanceResult, NPSHInput, NPSHResult,
     APIResponse, UsageStats, HeatExchangerInput, HeatExchangerResult,
     LMTDInput, LMTDResult, EffectivenessNTUInput, EffectivenessNTUResult,
     OpenChannelFlowInput, OpenChannelFlowResult, CompressibleFlowInput, CompressibleFlowResult,
     BoundaryLayerInput, BoundaryLayerResult, ExternalFlowInput, ExternalFlowResult}

\* camelCase back to snake_case, fooBarBaz -> foo_bar_baz: an underscore and
\* the lower-case letter for every upper-case letter.
RECURSIVE to_snake_case(_)
to_snake_case(camel_str) ==
    IF camel_str = "" THEN ""
    ELSE LET ch == CharAt(camel_str, 1)
         IN  (IF IndexIn(UpperCase, ch) > 0 THEN "_" \o lower(ch) ELSE ch)
             \o to_snake_case(SubSeq(camel_str, 2, Len(camel_str)))

\* One field of one model: its name, the key it has on the wire, and that key
\* translated back.
Translate ==
    /\ Idle
    /\ \E model \in Models : \E f \in FieldsOf(model) :
          last' = [op |-> "translate", model |-> model.name, name |-> f.name,
                   wire |-> f.wire, back |-> to_snake_case(f.wire)]
    /\ UNCHANGED <<clients, _global_client, lastInit>>

NextTranslation ==
    \/ Translate
    \/ Return

SpecTranslation == Init /\ [][NextTranslation]_vars

\* C13: field-name translation round-trips: for every field of every input
\* and result model, translating the snake_case name to its wire name and
\* translating that back yields the original snake_case name.
C13_RoundTrip ==
    last.op = "translate" => last.back = last.name

\* The same, for the fields whose key comes from the alias generator.
C13_RoundTripOfGeneratedKeys ==
    (last.op = "translate" /\ last.wire = to_camel_case(last.name)) => last.back = last.name

(***************************************************************************)
(* Properties of the categorical inputs.                                   *)
(***************************************************************************)
\* The values the docstrings of the facade methods list for each categorical
\* parameter (over all the methods that take it).
RecognisedValues(k) ==
    CASE k = "flow_arrangement" ->
            {"counterflow", "parallel", "crossflow", "crossflow_unmixed"}
      [] k = "channel_shape" -> {"rectangular", "trapezoidal", "circular"}
      [] k = "geometry" -> {"sphere", "cylinder", "flat_plate", "airfoil"}
      [] OTHER -> {}

CategoricalArgs == {"flow_arrangement", "channel_shape", "geometry"}

\* The categorical arguments of the call in `last` whose value is not recognised.
UnrecognisedArgs ==
    IF Idle \/ last.op \notin FacadeOps THEN {}
    ELSE {k \in DOMAIN last.args \cap CategoricalArgs :
            last.args[k].t = "str" /\ last.args[k].s \notin RecognisedValues(k)}

\* C14: for the categorical input fields flow arrangement, channel shape and
\* geometry, a value outside the recognised set raises ValidationError locally
\* and no request is sent.
C14_UnrecognisedRejected ==
    UnrecognisedArgs # {} =>
        last.kind \in ValidationErrorKinds /\ last.requests = <<>>

(***************************************************************************)
(* Errors on their way to the caller.                                      *)
(***************************************************************************)
ShortcutOps ==
    {"shortcuts.pressure_drop", "shortcuts.flow_rate", "shortcuts.pump_power",
     "shortcuts.npsh", "shortcuts.lmtd", "shortcuts.heat_exchanger",
     "shortcuts.open_channel_flow"}

\* The shortcuts whose facade method exists and accepts the keywords it is given.
DelegatingOps == ShortcutOps \ {"shortcuts.pump_power", "shortcuts.npsh"}

\* The facade call a shortcut makes for the arguments a, answered with resp.
FacadeCallOf(op, c, a, resp) ==
    CASE op = "shortcuts.pressure_drop" ->
           hydraulics_pressure_drop(c, WithDefault(a, "pipe_roughness", JNum(46)), resp)
      [] op = "shortcuts.flow_rate" ->
           hydraulics_flow_rate(c, WithDefault(a, "pipe_roughness", JNum(46)), resp)
      [] op = "shortcuts.lmtd" ->
           heat_transfer_lmtd(c, WithDefault(a, "flow_arrangement", JStr("counterflow")), resp)
      [] op = "shortcuts.heat_exchanger" ->
           heat_transfer_heat_exchanger_area(c,
               WithDefault(a, "flow_arrangement", JStr("counterflow")), resp)
      [] op = "shortcuts.open_channel_flow" ->
           fluid_mechanics_open_channel_flow(c,
               WithDefault(a, "channel_shape", JStr("rectangular")) @@ ("side_slope" :> JNull),
               resp)

\* What the transport made of the last answer of the call.
TransportOutcome == ResponseOutcome(Answer)

\* A facade call whose request the transport answered with an error.
TransportRaised ==
    /\ ~Idle
    /\ last.op \in FacadeOps
    /\ Sent
    /\ TransportOutcome.kind # "ok"

\* A shortcut call, on an initialised process-wide client, whose facade method raised.
FacadeRaised ==
    /\ ~Idle
    /\ last.op \in DelegatingOps
    /\ last.client # None
    /\ FacadeCallOf(last.op, Val(last.client), last.args,
                    IF Sent THEN Answer ELSE TransportFailure("timed out")).kind # "ok"

\* C15: an error the transport raises during a facade call, and an error a facade
\* method raises during a shortcut call, reaches the caller with the same kind, the
\* same message and the same status, and no request follows it: the answer that
\* raised is the answer to the last request of the call.
C15_ErrorsPropagate ==
    /\ TransportRaised =>
          /\ last.kind = TransportOutcome.kind
          /\ last.message = TransportOutcome.message
          /\ last.status = TransportOutcome.status
          /\ Len(last.requests) = Len(last.resps)
    /\ FacadeRaised =>
          LET f == FacadeCallOf(last.op, Val(last.client), last.args,
                                IF Sent THEN Answer ELSE TransportFailure("timed out"))
          IN  /\ last.kind = f.kind
              /\ last.message = f.message
              /\ last.status = f.status
              /\ last.requests = f.requests

\* A shortcut call during which the server answered 400 with an error envelope.
C15_Witness ==
    /\ FacadeRaised
    /\ Sent
    /\ last.op = "shortcuts.pressure_drop"
    /\ last.kind = "APIError"
    /\ last.status = Some(400)
    /\ Len(last.requests) = 1

\* The answer is an HTTP response whose status the transport turns into an error.
HttpErrorAnswer == Sent /\ Answer.received /\ Answer.status >= 400

\* C16: every error raised because of an HTTP response (AuthenticationError for 401,
\* RateLimitError for 429, APIError for any other status from 400 up) carries the
\* status code of that response in its status_code.
C16_StatusCodeCarried ==
    (HttpErrorAnswer /\ last.kind \in {"AuthenticationError", "RateLimitError", "APIError"}) =>
        last.status = Some(Answer.status)

\* The same for APIError alone: the one error _make_request gives the status code to.
C16_StatusCodeCarriedByAPIError ==
    (HttpErrorAnswer /\ last.kind = "APIError") => last.status = Some(Answer.status)

(***************************************************************************)
(* Properties of the requests the facades send.                            *)
(***************************************************************************)
\* C17: one call of a facade method of the hydraulics, pumps, heat-transfer,
\* fluid-mechanics and analytics modules results in at most one network request.
C17_OneRoundTripPerFacadeCall ==
    (~Idle /\ last.op \in FacadeOps) => Len(last.requests) <= 1

\* The same for every facade method but heat_exchanger_sizing.
C17_OneRoundTripBesidesSizing ==
    (~Idle /\ last.op \in FacadeOps \ {"heat_transfer.heat_exchanger_sizing"}) =>
        Len(last.requests) <= 1

\* A key in the camelCase shape: no underscore, and a lower-case first letter.
IsCamelCaseKey(key) ==
    /\ key # ""
    /\ IndexIn(LowerCase, CharAt(key, 1)) # 0
    /\ \A i \in 1..Len(key) : CharAt(key, i) # "_"

\* The JSON bodies of the requests of the last call.
Bodies ==
    {last.requests[i].json : i \in {j \in 1..Len(last.requests) : last.requests[j].json.t # "null"}}

\* C18: every request body a facade method sends is a flat JSON object: all its keys
\* are camelCase, and no value is itself an object or a null standing for an unset field.
C18_BodyIsFlat ==
    (~Idle /\ last.op \in FacadeOps) =>
        \A body \in Bodies :
            /\ body.t = "obj"
            /\ \A key \in DOMAIN body.o :
                  /\ IsCamelCaseKey(key)
                  /\ body.o[key].t \notin {"obj", "null"}

\* The part of it about the keys alone.
C18_BodyKeysAreCamelCase ==
    (~Idle /\ last.op \in FacadeOps) =>
        \A body \in Bodies : body.t = "obj" /\ \A key \in DOMAIN body.o : IsCamelCaseKey(key)

(***************************************************************************)
(* The errors of _make_request.                                            *)
(***************************************************************************)
TransportErrorKinds == {"NetworkError", "AuthenticationError", "RateLimitError", "APIError"}

\* An answer that is not what the API promises: not JSON, JSON that is not an
\* object, or an object that is not a valid envelope.
MalformedAnswer ==
    /\ Sent
    /\ Answer.received
    /\ Answer.status \notin {401, 429}
    /\ \/ ~Answer.body.json
       \/ Answer.body.value.t # "obj"
       \/ Answer.status < 400 /\ ModelErrors(APIResponse, Answer.body.value.o) # {}

\* C19: whatever the server answers, _make_request returns a mapping or raises one
\* of NetworkError, AuthenticationError, RateLimitError and APIError, and a
\* malformed answer is reported as APIError.
C19_TransportTaxonomy ==
    (~Idle /\ last.op \in TransportOps /\ Sent) =>
        /\ last.kind \in {"ok"} \cup TransportErrorKinds
        /\ MalformedAnswer => last.kind = "APIError"

\* The same for the answers whose JSON, where there is JSON, is an object.
C19_TransportTaxonomyOfObjects ==
    (~Idle /\ last.op \in TransportOps /\ Sent
        /\ (AnsweredJson => Answer.body.value.t = "obj")) =>
        /\ last.kind \in {"ok"} \cup TransportErrorKinds
        /\ MalformedAnswer => last.kind = "APIError"

\* The fixed endpoint table: the method and path of each operation.
Endpoint(method, path) == [method |-> method, path |-> path]

EndpointTable ==
    [op \in {"hydraulics.pressure_drop", "hydraulics.flow_rate", "pumps.performance",
             "pumps.npsh", "heat_transfer.lmtd", "heat_transfer.heat_exchanger_area",
             "heat_transfer.effectiveness_ntu", "fluid_mechanics.open_channel_flow",
             "fluid_mechanics.compressible_flow", "fluid_mechanics.boundary_layer",
             "fluid_mechanics.external_flow", "fluid_mechanics.normal_shock",
             "fluid_mechanics.choked_flow", "analytics.usage_stats",
             "analytics.subscription_limits", "health_check"} |->
        CASE op = "hydraulics.pressure_drop" -> Endpoint("POST", "/api/v1/hydraulics/pressure-drop")
          [] op = "hydraulics.flow_rate" -> Endpoint("POST", "/api/v1/hydraulics/flow-rate")
          [] op = "pumps.performance" -> Endpoint("POST", "/api/v1/pumps/performance")
          [] op = "pumps.npsh" -> Endpoint("POST", "/api/v1/pumps/npsh")
          [] op = "heat_transfer.lmtd" -> Endpoint("POST", "/api/v1/heat-transfer/lmtd")
          [] op = "heat_transfer.heat_exchanger_area" ->
               Endpoint("POST", "/api/v1/heat-transfer/heat-exchanger-area")
          [] op = "heat_transfer.effectiveness_ntu" ->
               Endpoint("POST", "/api/v1/heat-transfer/effectiveness-ntu")
          [] op = "fluid_mechanics.open_channel_flow" ->
               Endpoint("POST", "/api/v1/fluid-mechanics/open-channel-flow")
          [] op = "fluid_mechanics.compressible_flow" ->
               Endpoint("POST", "/api/v1/fluid-mechanics/compressible-flow")
          [] op = "fluid_mechanics.boundary_layer" ->
               Endpoint("POST", "/api/v1/fluid-mechanics/boundary-layer")
          [] op = "fluid_mechanics.external_flow" ->
               Endpoint("POST", "/api/v1/fluid-mechanics/external-flow")
          [] op = "fluid_mechanics.normal_shock" ->
               Endpoint("POST", "/api/v1/fluid-mechanics/normal-shock")
          [] op = "fluid_mechanics.choked_flow" ->
               Endpoint("POST", "/api/v1/fluid-mechanics/choked-flow")
          [] op = "analytics.usage_stats" -> Endpoint("GET", "/analytics/usage")
          [] op = "analytics.subscription_limits" -> Endpoint("GET", "/analytics/limits")
          [] op = "health_check" -> Endpoint("GET", "/health")]

\* The operation a call ends in: a shortcut ends in the facade method it delegates to.
OperationOf(op) ==
    CASE op = "shortcuts.pressure_drop" -> "hydraulics.pressure_drop"
      [] op = "shortcuts.flow_rate" -> "hydraulics.flow_rate"
      [] op = "shortcuts.lmtd" -> "heat_transfer.lmtd"
      [] op = "shortcuts.heat_exchanger" -> "heat_transfer.heat_exchanger_area"
      [] op = "shortcuts.open_channel_flow" -> "fluid_mechanics.open_channel_flow"
      [] OTHER -> op

\* C20: every request of an operation of the endpoint table has the method of the
\* table and, after the origin of the client's base URL, exactly the path of the
\* table, whatever the inputs of the call.
C20_EndpointTable ==
    (~Idle /\ OperationOf(last.op) \in DOMAIN EndpointTable /\ last.requests # <<>>) =>
        \A i \in 1..Len(last.requests) :
            /\ last.requests[i].method = EndpointTable[OperationOf(last.op)].method
            /\ last.requests[i].url =
                  clients[Val(last.client)].base_url.origin
                      \o EndpointTable[OperationOf(last.op)].path

\* Usage statistics asked for seven days from a client with a base URL of its own.
C20_Witness ==
    /\ last.op = "analytics.usage_stats"
    /\ last.args.days = JNum(7)
    /\ last.requests # <<>>
    /\ last.requests[1].method = "GET"
    /\ last.requests[1].url = LocalBaseUrl.origin \o "/analytics/usage"

(***************************************************************************)
(* The frame of a call.                                                    *)
(***************************************************************************)
\* Every client there is keeps its base URL, credentials, timeout, headers and
\* facade references over a step.
ConfigurationKept ==
    \A i \in DOMAIN clients : i \in DOMAIN clients' /\ clients'[i] = clients[i]

\* The outcome of a call of the transport is what _make_request makes of the answer
\* to that call, with the request built from the client as it was constructed.
OutcomeOfThisCallAlone ==
    (~Idle /\ last.op \in TransportOps) =>
        /\ last.kind = ResponseOutcome(Answer).kind
        /\ last.message = ResponseOutcome(Answer).message
        /\ last.value = ResponseOutcome(Answer).value
        /\ \A i \in 1..Len(last.requests) :
              /\ last.requests[i].headers = clients[Val(last.client)].headers
              /\ last.requests[i].timeout = clients[Val(last.client)].timeout

\* C21: no call, whether it succeeds or fails, changes the configuration of a
\* client (base URL, credentials, timeout, authentication headers, facade
\* references), so the outcome of a call depends on that call's inputs and the
\* server's answer alone.
C21_ConfigurationNeverMutated ==
    [][ConfigurationKept]_vars /\ []OutcomeOfThisCallAlone

\* A call that failed on a client that still holds its authentication header.
C21_Witness ==
    /\ last.op = "health_check"
    /\ last.kind = "AuthenticationError"
    /\ AuthHeaders(clients[Val(last.client)].headers) # {}
    /\ Len(clients) = MaxClients

(***************************************************************************)
(* Properties of the process-wide client and the shortcuts.                *)
(***************************************************************************)
\* C22: when init was never called, the failure of get_client() is of the class
\* ConfigurationError, an error of the SDK's taxonomy.
C22_NotInitializedIsConfigurationError ==
    (~Idle /\ last.op = "get_client" /\ last.before = None /\ lastInit = None) =>
        last.kind = "ConfigurationError"

\* C23: init() called without an api_key, in a process whose environment sets
\* ENGIVAULT_API_KEY, succeeds, and stores and returns a client authenticated with
\* the key of the environment.
C23_InitReadsEnvironment ==
    (~Idle /\ last.op = "init" /\ last.args.api_key = None /\ last.args.jwt_token = None
        /\ last.environ # None) =>
        /\ last.kind = "ok"
        /\ last.value # None
        /\ _global_client = last.value
        /\ clients[Val(last.value)].api_key = last.environ
        /\ AuthOf(Val(last.value)) = {<<"X-API-Key", Val(last.environ)>>}

\* What init() does in that process: it fails as a construction without credentials.
C23_InitIgnoresEnvironment ==
    (~Idle /\ last.op = "init" /\ last.args.api_key = None /\ last.args.jwt_token = None) =>
        last.kind = "ConfigurationError" /\ _global_client = last.before

\* C24: while the process-wide client is unset, never initialised or reset, every
\* shortcut function fails with the "not initialized" error of get_client(), sends
\* no request and leaves the process-wide client unset.
C24_ShortcutWithoutInit ==
    (~Idle /\ last.op \in ShortcutOps /\ last.before = None) =>
        /\ last.kind = GetClientOutcome(None).kind
        /\ last.message = NotInitializedMessage
        /\ last.requests = <<>>
        /\ last.resps = <<>>
        /\ _global_client = None

\* pump_power called after a client was constructed but with none stored.
C24_Witness ==
    /\ last.op = "shortcuts.pump_power"
    /\ last.before = None
    /\ Len(clients) >= 1
    /\ last.kind = "RuntimeError"
    /\ last.requests = <<>>

\* The facade method each shortcut is to reach.
FacadeOfShortcut(op) ==
    CASE op = "shortcuts.pump_power" -> "pumps.performance"
      [] op = "shortcuts.npsh" -> "pumps.npsh"
      [] OTHER -> OperationOf(op)

\* A shortcut call on an initialised process-wide client reached its facade method:
\* it ended without a request only where the facade rejected the input, and a
\* request it sent is the one request of that facade method.
ReachedFacade ==
    /\ last.requests = <<>> => last.kind \in ValidationErrorKinds
    /\ last.requests # <<>> =>
          /\ Len(last.requests) = 1
          /\ last.requests[1].method = EndpointTable[FacadeOfShortcut(last.op)].method
          /\ last.requests[1].url =
                clients[Val(last.client)].base_url.origin
                    \o EndpointTable[FacadeOfShortcut(last.op)].path

\* C25: after init, each shortcut function delegates to one facade method that the
\* client has, with parameters that method accepts, and returns its result;
\* pump_power reaches the performance operation of the pumps facade and npsh its
\* NPSH operation.
C25_ShortcutsDelegate ==
    (~Idle /\ last.op \in ShortcutOps /\ last.before # None) => ReachedFacade

\* The same for the five shortcuts other than pump_power and npsh.
C25_ShortcutsDelegateBesidesPumps ==
    (~Idle /\ last.op \in DelegatingOps /\ last.before # None) =>
        /\ ReachedFacade
        /\ LET f == FacadeCallOf(last.op, Val(last.client), last.args,
                                IF Sent THEN Answer ELSE TransportFailure("timed out"))
           IN  last.kind = f.kind /\ last.value = f.value /\ last.requests = f.requests

(***************************************************************************)
(* Properties of usage_stats.                                              *)
(***************************************************************************)
\* The call sent one GET to /analytics/usage with the query parameters params.
OneUsageRequest(params) ==
    /\ Len(last.requests) = 1
    /\ last.requests[1].method = "GET"
    /\ last.requests[1].url = clients[Val(last.client)].base_url.origin \o "/analytics/usage"
    /\ last.requests[1].json = JNull
    /\ last.requests[1].params = JObj(params)

\* C26: usage_stats(days) with days given and outside 1..365 raises ValidationError
\* and sends no request; with days within 1..365 it sends one GET to
\* /analytics/usage with the query parameter days; with days omitted it sends one
\* GET without a days parameter.
C26_UsageStatsDays ==
    (~Idle /\ last.op = "analytics.usage_stats") =>
        IF last.args.days.t = "null" THEN OneUsageRequest(EmptyDict)
        ELSE IF last.args.days.n < 1 \/ last.args.days.n > 365
        THEN last.kind \in ValidationErrorKinds /\ last.requests = <<>>
        ELSE OneUsageRequest([days |-> last.args.days])

\* The largest number of days accepted.
C26_Witness ==
    /\ last.op = "analytics.usage_stats"
    /\ last.args.days = JNum(365)
    /\ Len(last.requests) = 1
    /\ last.requests[1].params = JObj([days |-> JNum(365)])

(***************************************************************************)
(* Properties of the process-wide client under failed and repeated init.   *)
(***************************************************************************)
\* A step that is an init() ending in ConfigurationError leaves the store as it was.
FailedInitKeepsStore ==
    (last'.op = "init" /\ last'.kind = "ConfigurationError") =>
        _global_client' = _global_client /\ lastInit' = lastInit /\ clients' = clients

\* get_client() answers from the last successful init(): that client, or the
\* "not initialized" error where there was none.
GetClientAnswersFromLastInit ==
    (~Idle /\ last.op = "get_client") =>
        IF lastInit = None
        THEN last.kind = "RuntimeError" /\ last.message = NotInitializedMessage
        ELSE last.kind = "ok" /\ last.value = lastInit

\* C27: an init() that fails with ConfigurationError, no credential having been
\* supplied, leaves the process-wide client unchanged: get_client() still returns
\* the client stored before, or still fails with "not initialized" if there was none.
C27_FailedInitLeavesSingleton ==
    [][FailedInitKeepsStore]_vars /\ []GetClientAnswersFromLastInit

\* A failed init() in a process that had a client stored.
C27_Witness ==
    /\ last.op = "init"
    /\ last.kind = "ConfigurationError"
    /\ last.before # None
    /\ _global_client = last.before

\* A step that constructs a client, by init() or otherwise, leaves the clients
\* there were as they were.
ConstructionKeepsOthers ==
    last'.op \in ConstructorOps =>
        \A i \in DOMAIN clients : i \in DOMAIN clients' /\ clients'[i] = clients[i]

\* The five facades of a client hold that client.
FacadesHoldTheirClient ==
    \A i \in DOMAIN clients : \A m \in DOMAIN clients[i].facades : clients[i].facades[m] = i

\* Every request of a call on a client carries the headers and the timeout of that
\* client and goes to the origin of its base URL.
RequestsThroughOwnClient ==
    (~Idle /\ last.op \in FacadeOps \cup TransportOps) =>
        \A i \in 1..Len(last.requests) :
            LET own == clients[Val(last.client)]
                url == last.requests[i].url
            IN  /\ last.requests[i].headers = own.headers
                /\ last.requests[i].timeout = own.timeout
                /\ Len(url) >= Len(own.base_url.origin)
                /\ SubSeq(url, 1, Len(own.base_url.origin)) = own.base_url.origin

\* C28: clients are independent: a later init(), or any other construction, does
\* not alter a client returned before, which keeps sending its own credentials,
\* base URL and timeout; the facades of a client send through that client.
C28_ClientsIndependent ==
    [][ConstructionKeepsOthers]_vars /\ [](FacadesHoldTheirClient /\ RequestsThroughOwnClient)

\* A facade call on the first client after init() has stored a second one with
\* other credentials.
C28_Witness ==
    /\ last.op \in FacadeOps
    /\ last.client = Some(1)
    /\ last.requests # <<>>
    /\ _global_client = Some(2)
    /\ clients[1].headers # clients[2].headers
    /\ last.requests[1].headers = clients[1].headers

(***************************************************************************)
(* A shortcut call in flight while another thread calls init().  The call  *)
(* of pressure_drop is taken apart into the steps between which the other  *)
(* thread can run: the test `_global_client is None` of get_client(), its  *)
(* `return _global_client`, the request, and the answer.  `last` holds the *)
(* call in flight, `last.pc` the step it has reached and `last.client` the *)
(* local variable `client` of the shortcut.                                *)
(***************************************************************************)
\* A shortcut that looks the process-wide client up again when it sends.
ClientOfCallReread(local, stored) == stored

\* The client the facade call is made on: the local variable `client`, bound
\* once by `client = get_client()`.
ClientOfCall(local, stored) == local

InFlightArgs == Without(HydraulicsPressureDropBase, "pipe_roughness")

\* `if _global_client is None: raise RuntimeError(...)`
InFlightCheck ==
    /\ Idle
    /\ last' = [Local("shortcuts.pressure_drop", None,
                      GetClientOutcome(_global_client).kind,
                      GetClientOutcome(_global_client).message, EmptyDict)
                    EXCEPT !.args = InFlightArgs]
                @@ [pc |-> IF _global_client = None THEN "done" ELSE "checked"]
    /\ UNCHANGED <<clients, _global_client, lastInit>>

\* `return _global_client` and `client = get_client()`
InFlightRead ==
    /\ ~Idle
    /\ last.pc = "checked"
    /\ last' = [last EXCEPT !.pc = "read", !.client = _global_client]
    /\ UNCHANGED <<clients, _global_client, lastInit>>

\* client.hydraulics.pressure_drop(...) up to session.request(...): the request is
\* built from the client before any answer is there.
InFlightSend ==
    /\ ~Idle
    /\ last.pc = "read"
    /\ LET c == Val(ClientOfCall(last.client, _global_client))
           r == hydraulics_pressure_drop(Facade(c, "hydraulics"),
                    WithDefault(last.args, "pipe_roughness", JNum(46)),
                    TransportFailure("timed out"))
       IN  last' = [last EXCEPT !.pc = "sent", !.requests = r.requests]
    /\ UNCHANGED <<clients, _global_client, lastInit>>

\* The answer arrives and the facade call returns or raises.
InFlightReceive ==
    /\ ~Idle
    /\ last.pc = "sent"
    /\ \E resp \in FacadeResponses(ResultDatas(PressureDropResult)) :
         LET c == Val(ClientOfCall(last.client, _global_client))
             r == hydraulics_pressure_drop(Facade(c, "hydraulics"),
                      WithDefault(last.args, "pipe_roughness", JNum(46)), resp)
         IN  last' = [last EXCEPT !.pc = "done", !.kind = r.kind, !.message = r.message,
                                  !.status = r.status, !.value = r.value,
                                  !.resps = r.resps]
    /\ UNCHANGED <<clients, _global_client, lastInit>>

InFlightReturn ==
    /\ ~Idle
    /\ last.pc = "done"
    /\ last' = [op |-> "none"]
    /\ UNCHANGED <<clients, _global_client, lastInit>>

\* init() on the other thread, at any point of the call in flight.
InFlightInit ==
    /\ Len(clients) < MaxClients
    /\ \E a \in {x \in ClientArgs : HasCredential(x.api_key, x.jwt_token)} :
         LET id == Len(clients) + 1 IN
         /\ clients' = Append(clients,
                 EngiVaultClient(id, a.api_key, a.jwt_token, a.base_url, a.timeout))
         /\ _global_client' = InitStore(_global_client, id)
         /\ lastInit' = Some(id)
    /\ UNCHANGED last

NextInFlight ==
    \/ InFlightCheck
    \/ InFlightRead
    \/ InFlightSend
    \/ InFlightReceive
    \/ InFlightReturn
    \/ InFlightInit

SpecInFlight == Init /\ [][NextInFlight]_vars

\* C29: a shortcut call in flight while init() replaces the process-wide client
\* completes on the one client it read: its single request carries the headers,
\* timeout and base URL of that client, and its outcome is what the facade of that
\* client makes of the answer, so the replacement makes no call fail.
C29_InFlightCallKeepsItsClient ==
    (~Idle /\ last.pc \in {"sent", "done"} /\ last.kind # "RuntimeError") =>
        /\ Cardinality(last.client) = 1
        /\ Len(last.requests) = 1
        /\ last.requests[1].headers = clients[Val(last.client)].headers
        /\ last.requests[1].timeout = clients[Val(last.client)].timeout
        /\ last.requests[1].url =
              clients[Val(last.client)].base_url.origin \o "/api/v1/hydraulics/pressure-drop"
        /\ last.pc = "done" =>
              LET f == hydraulics_pressure_drop(Val(last.client),
                           WithDefault(last.args, "pipe_roughness", JNum(46)), last.resps[1])
              IN  last.kind = f.kind /\ last.message = f.message /\ last.value = f.value

\* A call that succeeded on the client it read although init() has since stored
\* another client with other credentials.
C29_Witness ==
    /\ ~Idle
    /\ last.pc = "done"
    /\ last.kind = "ok"
    /\ last.client # None
    /\ _global_client # last.client
    /\ clients[Val(_global_client)].headers # clients[Val(last.client)].headers
    /\ last.requests[1].headers = clients[Val(last.client)].headers

(***************************************************************************)
(* The default of pipe_roughness.                                          *)
(***************************************************************************)
\* The default the input model of a hydraulics operation declares for pipe_roughness.
DeclaredRoughness(op) == FieldNamed(InputModelOf(op), "pipe_roughness").default

\* The pipeRoughness of the request of the last call.
SentRoughness == last.requests[1].json.o["pipeRoughness"]

\* A hydraulics call through the facade that leaves pipe_roughness out.
FacadeOmitsRoughness ==
    /\ ~Idle
    /\ last.op \in {"hydraulics.pressure_drop", "hydraulics.flow_rate"}
    /\ last.args.pipe_roughness = JNull
    /\ last.requests # <<>>

\* The same through the shortcut function.
ShortcutOmitsRoughness ==
    /\ ~Idle
    /\ last.op \in {"shortcuts.pressure_drop", "shortcuts.flow_rate"}
    /\ ~Has(last.args, "pipe_roughness")
    /\ last.requests # <<>>

\* C30: when the caller leaves pipe_roughness out, the pipeRoughness sent is the
\* default declared on the input model, through the shortcut function as through
\* the hydraulics facade.
C30_SameRoughnessDefault ==
    /\ FacadeOmitsRoughness => SentRoughness = DeclaredRoughness(last.op)
    /\ ShortcutOmitsRoughness => SentRoughness = DeclaredRoughness(OperationOf(last.op))

\* The part of it about the facade.
C30_FacadeRoughnessDefault ==
    FacadeOmitsRoughness => SentRoughness = DeclaredRoughness(last.op)

====
